---- MODULE Spec2Model ----
(***************************************************************************)
(* A model of irg's search-and-preview coordination: the Bubble Tea event  *)
(* loop (Model.Update), the debounce tokens, the search sessions started   *)
(* by Model.executeSearch, the command goroutine that batches the matches  *)
(* of one session, the reader goroutine of Searcher.Search, and the        *)
(* preview loads.                                                          *)
(*                                                                         *)
(* The event loop consumes one message per step.  Every command runs on a  *)
(* goroutine of its own and hands exactly one message back, so messages of *)
(* different commands reach the event loop in any order.                   *)
(***************************************************************************)
EXTENDS Integers, Sequences, FiniteSets, TLC

(***************************************************************************)
(* Bounds of the model.                                                    *)
(***************************************************************************)
\* Sessions started in one run when sessions overlap.
MaxSessions == 2
\* Effective-query changes in one run (values of debounceToken).
MaxToken == 2
\* Output lines one external process writes before it closes its output.
MaxLines == 2
\* The same, when a single session's pipeline is followed on its own.
MaxPipeLines == 3
\* Ticks of the wall clock.
MaxTime == 1
\* Lines of every file a match lies in.
FileLength == 3
\* Bytes of the text of every matching line.
TextLen == 8
\* Ticks of the wall clock when the presses of Ctrl+C are followed.
MaxQuitTime == 2
\* Goroutines that call LoadPaths, and calls each of them makes.
MaxCallers == 2
MaxCalls == 2
\* Ticks of the wall clock while LoadPaths is called.
MaxCacheTime == 3
\* Lines of the longest file a context is read from.
MaxFileLines == 14
\* Search calls on the shared Searcher.
MaxSearches == 3
\* Submatches handed to highlightMatches in one call, and the largest
\* offset of a submatch (the lines have up to two characters).
MaxSubmatches == 2
MaxOffset == 2
\* Highlighter instances side by side.
MaxHighlighters == 2
\* Lines handed to HighlightLines in one call.
MaxHlLines == 2
\* Characters of an input and of a path when single paths are scored.
MaxInputLen == 2
MaxPathLen == 4
\* Characters the types input holds at most.
MaxTypesLen == 2

(***************************************************************************)
(* Program constants, scaled down so that the cap and the count trigger    *)
(* are reached: the source has maxResults = 10000 (model.go:19), a batch   *)
(* threshold of 100 (model.go:403) and a conduit capacity of 100           *)
(* (model.go:383).                                                         *)
(***************************************************************************)
maxResults == 3
batchThreshold == 2
resultsCap == 2

\* model.go:20
previewContext == 5
\* The page keys move the selection by 10 (model.go:193, 202).
pageJump == 10
\* A step of the mouse wheel moves it by 3 (part_004:419, 429).
wheelStep == 3

\* Values of the pattern input and of the path input (textinput.Value()).
Patterns == {"", "a", "b"}
Paths == {"", "d"}

\* search.CaseSensitivity (part_003:286-292)
CaseSmart == "smart"
CaseSensitive == "sensitive"
CaseInsensitive == "insensitive"

\* One line of the external process's output, by what the adapter does with it.
LineKinds == {"match", "summary", "garbage"}

\* focusedInput (part_004:102-108)
focusPattern == "pattern"
focusPath == "path"
focusTypes == "types"

\* maxPathResults = 50 (paths.go:16), scaled down so that the cut is reached.
maxPathResults == 3

\* pathCacheTTL = 30 s (paths.go:14), in ticks of the wall clock.
pathCacheTTL == 2
\* paths.go:13
pathMaxDepth == 5
\* maxHighlightLength = 100 KB and maxLineLength = 10 KB (part_002:15-16),
\* in characters of the model.
maxHighlightLength == 2
maxLineLength == 1

\* viewport.New(40, 20) (model.go:104-105)
viewportWidth == 40

\* 2*time.Second (model.go:135), in ticks of the wall clock.
ctrlCWindow == 2

\* Characters typed into the types input.
TypeChars == {"g", ","}

\* Widths of the terminal window a tea.WindowSizeMsg reports.
WindowWidths == {0, 64, 80}

VARIABLES
    \* ---- ui.Model, owned by the event loop
    patternInput, pathInput, lastPattern, lastPath, debounceToken,
    caseSensitivity,
    results, selectedIndex, matchCount,
    searching, errorMessage, searchStart, searchTime,
    previewPath, previewLines, previewStart, previewMatch,
    searchCancel,
    focused, typesInput, fileTypes, lastFileTypes,
    filteredTypes, dropdownVisible, dropdownIndex,
    resultsWidth, previewWidth,   \* resultsView.Width, previewView.Width
    ctrlCPressed, lastCtrlCTime,
    \* ---- the program around the event loop
    quit,       \* Update returned tea.Quit: the event loop has ended
    aborted,    \* the event whose handler panicked, which ended the event loop
    editorDone, \* the editorFinishedMsg in flight, "none" when there is none
    \* ---- outside the event loop
    now,        \* the wall clock
    ticks,      \* delayed triggers scheduled by tea.Tick and not yet consumed
    sessions,   \* one record per executeSearch call: its context and its goroutines
    loads,      \* preview loads whose previewLoadedMsg is not yet consumed
    burstFirst, \* history: the token of the first change of the current run of rapid changes
    limits,     \* the bounds in force, fixed by the initial state
    \* ---- ui.PathProvider (paths.go)
    dir,        \* the entries a walk of the directory under root finds
    cache,      \* p.cache: nil, or the entries of the last walk
    cacheTime,  \* p.cacheTime: the zero time, or the clock when the cache was filled
    cacheMu,    \* p.cacheMu: the callers that hold it for reading, the one that holds it for writing
    callers,    \* one record per goroutine that calls LoadPaths: its position and what it returned
    walkLog,    \* history: the walks completed, oldest first
    filterCall, \* one call of FilterPaths: its arguments and, once made, its result
    \* ---- highlight.Highlighter (part_002) and highlightMatches (model.go)
    highlighters, \* one record per Highlighter instance
    hlCall,     \* one call of Highlight and of HighlightLines: arguments and results
    hmCall,     \* one call of highlightMatches: arguments and result
    libCall,    \* one call of a function of the search package: arguments and result
    \* ---- search.Searcher (part_003)
    searcher    \* the Searcher all sessions share, its Search calls and the commands they made

inputVars == <<patternInput, pathInput, lastPattern, lastPath, debounceToken>>
typeVars == <<typesInput, fileTypes, lastFileTypes, filteredTypes,
              dropdownVisible, dropdownIndex>>
viewVars == <<resultsWidth, previewWidth>>
ctrlVars == <<ctrlCPressed, lastCtrlCTime, quit>>
listVars == <<results, selectedIndex, matchCount>>
statusVars == <<searching, errorMessage, searchStart, searchTime>>
previewVars == <<previewPath, previewLines, previewStart, previewMatch>>
modelVars == <<inputVars, caseSensitivity, listVars, statusVars, previewVars,
               searchCancel>>

providerVars == <<dir, cache, cacheTime, cacheMu, callers, walkLog>>
\* What the event loop of Model.Update never touches.
libVars == <<providerVars, filterCall, highlighters, hlCall, hmCall, libCall, searcher>>

\* Everything but the abort flag.
loopVars == <<modelVars, focused, typeVars, viewVars, ctrlVars, editorDone,
              now, ticks, sessions, loads, burstFirst, limits, libVars>>

vars == <<loopVars, aborted>>

\* What only the later handlers touch.
uiVars == <<focused, typeVars, viewVars, ctrlVars, editorDone>>

(***************************************************************************)
(* Helpers and message shapes.                                             *)
(***************************************************************************)
Take(s, n) == IF Len(s) <= n THEN s ELSE SubSeq(s, 1, n)

Max(a, b) == IF a >= b THEN a ELSE b

Min(a, b) == IF a <= b THEN a ELSE b

NoMsg == [type |-> "none", matches |-> <<>>, done |-> FALSE]

\* searchResultMsg{matches, done} (model.go:66-69)
searchResultMsg(matches, done) == [type |-> "result", matches |-> matches, done |-> done]

\* searchErrorMsg{err} (model.go:77-79)
searchErrorMsg == [type |-> "error", matches |-> <<>>, done |-> FALSE]

\* debounceMsg{token, pattern, path} (model.go:71-75)
debounceMsg(token, pattern, path) == [token |-> token, pattern |-> pattern, path |-> path]

\* search.Match built by the reader from the k-th match line of session s
\* (part_003:411-415): the line names the file f and a text of t bytes before
\* its line end.  sess and seq are history: the code's Match has neither.
Match(s, k, f, t) ==
    [sess |-> s, seq |-> k, Path |-> f, LineNumber |-> k, LineText |-> t]

\* No match read.
NoMatch == [sess |-> 0, seq |-> 0, Path |-> "", LineNumber |-> 0, LineText |-> 0]

(***************************************************************************)
(* Init: NewModel() (model.go:93-121).                                     *)
(***************************************************************************)
NewModel(l) ==
    /\ patternInput = ""
    /\ pathInput = ""
    /\ lastPattern = ""
    /\ lastPath = "."
    /\ debounceToken = 0
    /\ caseSensitivity = CaseSmart
    /\ results = <<>>
    /\ selectedIndex = 0
    /\ matchCount = 0
    /\ searching = FALSE
    /\ errorMessage = ""
    /\ searchStart = 0
    /\ searchTime = 0
    /\ previewPath = ""
    /\ previewLines = <<>>
    /\ previewStart = 0
    /\ previewMatch = 0
    /\ searchCancel = 0
    /\ focused = focusPattern
    /\ typesInput = <<>>
    /\ fileTypes = <<>>
    /\ lastFileTypes = <<>>
    /\ filteredTypes = <<>>
    /\ dropdownVisible = FALSE
    /\ dropdownIndex = 0
    /\ resultsWidth = viewportWidth
    /\ previewWidth = viewportWidth
    /\ ctrlCPressed = FALSE
    /\ lastCtrlCTime = 0
    /\ quit = FALSE
    /\ aborted = "none"
    /\ editorDone = "none"
    /\ now = 0
    /\ ticks = {}
    /\ sessions = <<>>
    /\ loads = {}
    /\ burstFirst = 0
    /\ limits = l

\* p.cache == nil and the zero time.Time of a new PathProvider.
NilCache == [set |-> FALSE, entries |-> <<>>]

ZeroTime == [zero |-> TRUE, t |-> 0]

\* NewPathProvider (paths.go:33-38): nothing cached, the lock free.
NewPathProvider ==
    /\ cache = NilCache
    /\ cacheTime = ZeroTime
    /\ cacheMu = [readers |-> {}, writer |-> 0]
    /\ walkLog = <<>>

\* No call of FilterPaths, of a Highlighter or of highlightMatches is followed.
NoFilterCall == [input |-> <<>>, allPaths |-> <<>>, made |-> FALSE, out |-> <<>>]

NoHlCall == [made |-> FALSE]

NoHmCall == [made |-> FALSE]

NoLibCall == [made |-> FALSE]

\* NewSearcher (part_003:334-336): s.cmd is nil (0), no Search has been called
\* and no exec.Cmd made.
NewSearcher == [cmd |-> 0, calls |-> <<>>, cmds |-> <<>>]

\* The event loop on its own: nobody calls the path provider, and no call of
\* the pure functions is followed.
LibIdle ==
    /\ NewPathProvider
    /\ dir = <<>>
    /\ callers = <<>>
    /\ filterCall = NoFilterCall
    /\ highlighters = <<>>
    /\ hlCall = NoHlCall
    /\ hmCall = NoHmCall
    /\ libCall = NoLibCall
    /\ searcher = NewSearcher

InitWith(l) == NewModel(l) /\ LibIdle

(***************************************************************************)
(* Model.loadPreview (model.go:346-367) and search.GetFileContextWithMatches*)
(* (part_003:458-496).  A line of a file is named by its file and number.  *)
(***************************************************************************)
GetFileContextWithMatches(path, lineNum, contextLines) ==
    LET startLine == Max(1, lineNum - contextLines)
        endLine == Min(lineNum + contextLines, FileLength)
    IN [Lines |-> [i \in 1..Max(0, endLine - startLine + 1) |-> <<path, startLine + i - 1>>],
        StartLine |-> startLine,
        MatchLine |-> lineNum]

\* Mutant of the load: an unreadable file yields a preview without lines.
previewLoadedEmpty(match, readable) ==
    IF readable
    THEN LET ctx == GetFileContextWithMatches(match.Path, match.LineNumber, previewContext)
         IN [path |-> match.Path, lines |-> ctx.Lines,
             startLine |-> ctx.StartLine, matchLine |-> ctx.MatchLine,
             of |-> match, err |-> FALSE]
    ELSE [path |-> match.Path, lines |-> <<>>,
          startLine |-> 1, matchLine |-> 1, of |-> match, err |-> TRUE]

\* previewLoadedMsg (model.go:81-87), as the command builds it (model.go:353-366).
\* of and err are history: the match the load was made for, and whether
\* GetFileContextWithMatches returned an error.
previewLoadedMsg(match, readable) ==
    IF readable
    THEN LET ctx == GetFileContextWithMatches(match.Path, match.LineNumber, previewContext)
         IN [path |-> match.Path, lines |-> ctx.Lines,
             startLine |-> ctx.StartLine, matchLine |-> ctx.MatchLine,
             of |-> match, err |-> FALSE]
    ELSE [path |-> match.Path, lines |-> <<"Error loading preview">>,
          startLine |-> 1, matchLine |-> 1, of |-> match, err |-> TRUE]

\* Mutant of loadPreview: no command at all.
loadPreviewNever(res, idx, readable) == loads

\* The loads in flight after m.loadPreview() on the list res and the index idx:
\* no command when the index is past the list.
loadPreview(res, idx, readable) ==
    IF idx >= Len(res) THEN loads
    ELSE loads \cup {previewLoadedMsg(res[idx + 1], readable)}

(***************************************************************************)
(* Model.executeSearch, the part that runs inside the event loop           *)
(* (model.go:369-380).  It resets the visible state and creates a fresh    *)
(* context; it does not call the previous m.searchCancel.  tok is history: *)
(* the debounce token that started the session, 0 for an immediate search. *)
(***************************************************************************)
NewSession(pattern, path, tok) ==
    [pattern |-> pattern, path |-> path, tok |-> tok,
     cancelled |-> FALSE,
     pc |-> "start", msg |-> NoMsg, why |-> "none",
     rd |-> "none", nMatch |-> 0, nSkip |-> 0, lastKind |-> "none",
     pending |-> NoMatch, chan |-> <<>>, batch |-> <<>>, ticked |-> FALSE,
     edited |-> FALSE, closes |-> 0]

\* The sessions after executeSearch: a fresh, uncancelled context is appended.
SessionsOnStart(ss, pattern, path, tok) ==
    Append(ss, NewSession(pattern, path, tok))

\* Mutant of executeSearch: the selection is left where it is.
executeSearchKeepsSelection(pattern, path, tok) ==
    /\ Len(sessions) < limits.sessions
    /\ results' = <<>>
    /\ matchCount' = 0
    /\ searching' = TRUE
    /\ errorMessage' = ""
    /\ searchStart' = now
    /\ previewPath' = ""
    /\ previewLines' = <<>>
    /\ sessions' = SessionsOnStart(sessions, pattern, path, tok)
    /\ searchCancel' = Len(sessions) + 1
    /\ UNCHANGED <<selectedIndex, searchTime, previewStart, previewMatch>>

executeSearch(pattern, path, tok) ==
    /\ Len(sessions) < limits.sessions
    /\ results' = <<>>
    /\ selectedIndex' = 0
    /\ matchCount' = 0
    /\ searching' = TRUE
    /\ errorMessage' = ""
    /\ searchStart' = now
    /\ previewPath' = ""
    /\ previewLines' = <<>>
    /\ sessions' = SessionsOnStart(sessions, pattern, path, tok)
    /\ searchCancel' = Len(sessions) + 1
    /\ UNCHANGED <<searchTime, previewStart, previewMatch>>

\* What executeSearch assigns.
searchVars == <<listVars, statusVars, previewVars, sessions, searchCancel>>

(***************************************************************************)
(* Strings the handlers take apart are sequences of characters.            *)
(***************************************************************************)
\* strings.Split(str, ","): the parts between the commas, one part at least.
RECURSIVE Split(_)
Split(str) ==
    IF \A i \in 1..Len(str) : str[i] # ","
    THEN <<str>>
    ELSE LET i == CHOOSE i \in 1..Len(str) :
                     str[i] = "," /\ \A j \in 1..(i - 1) : str[j] # ","
         IN <<SubSeq(str, 1, i - 1)>> \o Split(SubSeq(str, i + 1, Len(str)))

\* strings.Join(parts, ",")
RECURSIVE Join(_)
Join(parts) ==
    IF Len(parts) = 0 THEN <<>>
    ELSE IF Len(parts) = 1 THEN parts[1]
    ELSE parts[1] \o <<",">> \o Join(Tail(parts))

\* strings.HasPrefix(t, p)
HasPrefix(t, p) == Len(p) <= Len(t) /\ SubSeq(t, 1, Len(p)) = p

\* parseTypes (part_004:706-720): the non-empty parts (no input holds a space).
parseTypes(input) ==
    IF input = <<>> THEN <<>>
    ELSE LET NonEmpty(part) == part # <<>> IN SelectSeq(Split(input), NonEmpty)

\* m.allTypes, loaded at startup by search.LoadRipgrepTypes (part_004:223).
allTypes == << <<"g", "n">>, <<"g", "o">> >>

(***************************************************************************)
(* Rendering.  updateResultsView cuts a result line longer than the list   *)
(* width allows (model.go:478-483) and updatePreviewView draws a separator *)
(* of the preview width (model.go:528-531); Go panics on a negative slice  *)
(* bound and on a negative repeat count, and the panic ends the program.   *)
(***************************************************************************)
\* lineText[:maxTextLen-3] with maxTextLen = m.resultsView.Width - 20
ResultsViewPanics(res, w) ==
    \E i \in 1..Len(res) :
        LET maxTextLen == w - 20 IN
        /\ maxTextLen > 0
        /\ res[i].LineText > maxTextLen
        /\ (maxTextLen - 3 < 0 \/ maxTextLen - 3 > res[i].LineText)

\* strings.Repeat("-", m.previewView.Width-2), reached when there are lines
PreviewViewPanics(lines, w) == Len(lines) > 0 /\ w - 2 < 0

\* A handler that renders: the panic leaves no new model behind.
Rendering(event, panics, Handler) ==
    IF panics
    THEN aborted' = event /\ UNCHANGED loopVars
    ELSE Handler /\ UNCHANGED aborted

(***************************************************************************)
(* The tail of Model.Update (part_004:523-601, model.go:292-322): the      *)
(* focused input takes the message, the type dropdown follows the types    *)
(* input, and a changed effective query bumps the token, cancels the       *)
(* context held in m.searchCancel, clears the preview and schedules a      *)
(* delayed trigger.  key: the message is a key press.                      *)
(***************************************************************************)
CurrentPath(p) == IF p = "" THEN "." ELSE p

QueryChanged(pat, pth, typ) ==
    \/ pat # lastPattern
    \/ CurrentPath(pth) # lastPath
    \/ parseTypes(typ) # lastFileTypes

\* m.searchCancel(): the context of session c is cancelled (c = 0: nil).
Cancel(ss, c) ==
    IF c = 0 THEN ss ELSE [ss EXCEPT ![c].cancelled = TRUE]

\* The types of m.allTypes that start with the last part of the types input.
FilterTypes(typ) ==
    LET parts == Split(typ)
        lastPart == parts[Len(parts)]
        Starts(t) == HasPrefix(t, lastPart)
    IN SelectSeq(allTypes, Starts)

\* The dropdown after a key press with the types input focused
\* (part_004:538-564).
DropdownAfter(typ) ==
    LET parts == Split(typ)
        lastPart == parts[Len(parts)]
        filtered == FilterTypes(typ)
    IN IF lastPart # <<>>
       THEN [filtered |-> filtered, visible |-> Len(filtered) > 0,
             index |-> IF dropdownIndex >= Len(filtered) THEN 0 ELSE dropdownIndex]
       ELSE [filtered |-> filteredTypes, visible |-> FALSE, index |-> dropdownIndex]

\* History: session c, the one m.searchCancel belongs to, has seen the text of
\* an input change since it started.
Edited(ss, c, changed) ==
    IF c = 0 \/ ~changed THEN ss ELSE [ss EXCEPT ![c].edited = TRUE]

InputTail(pat, pth, typ, key) ==
    LET changed == pat # patternInput \/ pth # pathInput \/ typ # typesInput
        drop == IF focused = focusTypes /\ key
                THEN DropdownAfter(typ)
                ELSE [filtered |-> filteredTypes, visible |-> dropdownVisible,
                      index |-> dropdownIndex]
    IN Rendering("key", drop.visible # dropdownVisible
                    /\ ResultsViewPanics(results, resultsWidth),
        /\ patternInput' = pat
        /\ pathInput' = pth
        /\ typesInput' = typ
        /\ filteredTypes' = drop.filtered
        /\ dropdownVisible' = drop.visible
        /\ dropdownIndex' = drop.index
        /\ ctrlCPressed' = IF key THEN FALSE ELSE ctrlCPressed
        /\ IF QueryChanged(pat, pth, typ)
           THEN /\ debounceToken < MaxToken
                /\ lastPattern' = pat
                /\ lastPath' = CurrentPath(pth)
                /\ lastFileTypes' = parseTypes(typ)
                /\ fileTypes' = parseTypes(typ)
                /\ debounceToken' = debounceToken + 1
                /\ sessions' = Edited(Cancel(sessions, searchCancel), searchCancel, changed)
                /\ previewPath' = ""
                /\ previewLines' = <<>>
                /\ ticks' = ticks \cup
                     {debounceMsg(debounceToken + 1, pat, CurrentPath(pth))}
                /\ burstFirst' =
                     IF \E t \in ticks : t.token = debounceToken
                     THEN burstFirst ELSE debounceToken + 1
           ELSE /\ sessions' = Edited(sessions, searchCancel, changed)
                /\ UNCHANGED <<lastPattern, lastPath, lastFileTypes, fileTypes,
                               debounceToken, previewPath, previewLines,
                               ticks, burstFirst>>
        /\ UNCHANGED <<caseSensitivity, listVars, statusVars, previewStart,
                       previewMatch, searchCancel, focused, viewVars,
                       lastCtrlCTime, quit, editorDone, now, loads, limits, libVars>>)

\* A key press that edits the pattern input: the input has the focus.
EditPattern ==
    \E v \in Patterns :
        /\ focused = focusPattern
        /\ v # patternInput
        /\ InputTail(v, pathInput, typesInput, TRUE)

\* A key press that edits the path input.
EditPath ==
    \E v \in Paths :
        /\ focused = focusPath
        /\ v # pathInput
        /\ InputTail(patternInput, v, typesInput, TRUE)

\* A key press that edits the types input: a character at the end, or the
\* last character deleted.
EditTypes ==
    \E v \in {Append(typesInput, c) : c \in TypeChars}
             \cup {SubSeq(typesInput, 1, Len(typesInput) - 1)} :
        /\ focused = focusTypes
        /\ v # typesInput
        /\ Len(v) <= MaxTypesLen
        /\ InputTail(patternInput, pathInput, v, TRUE)

\* Any message no case of the switch returns on and that edits no input
\* (a cursor blink, a key the inputs ignore).
PassThrough ==
    \E key \in BOOLEAN : InputTail(patternInput, pathInput, typesInput, key)

(***************************************************************************)
(* case "tab" (part_004:264-287): the focus moves on and the dropdown      *)
(* closes.                                                                 *)
(***************************************************************************)
NextFocus(f) ==
    IF f = focusPattern THEN focusPath
    ELSE IF f = focusPath THEN focusTypes
    ELSE focusPattern

Tab ==
    Rendering("key", dropdownVisible /\ ResultsViewPanics(results, resultsWidth),
        /\ focused' = NextFocus(focused)
        /\ dropdownVisible' = FALSE
        /\ UNCHANGED <<modelVars, typesInput, fileTypes, lastFileTypes,
                       filteredTypes, dropdownIndex, viewVars, ctrlVars,
                       editorDone, now, ticks, sessions, loads, burstFirst,
                       limits, libVars>>)

(***************************************************************************)
(* case "ctrl+c" (model.go:133-140): the second press within two seconds   *)
(* of the first returns tea.Quit.                                          *)
(***************************************************************************)
CtrlC ==
    /\ IF ctrlCPressed /\ now - lastCtrlCTime < ctrlCWindow
       THEN quit' = TRUE /\ UNCHANGED <<ctrlCPressed, lastCtrlCTime>>
       ELSE ctrlCPressed' = TRUE /\ lastCtrlCTime' = now /\ quit' = quit
    /\ UNCHANGED <<modelVars, focused, typeVars, viewVars, editorDone, now,
                   ticks, sessions, loads, burstFirst, limits, libVars, aborted>>

(***************************************************************************)
(* case "ctrl+t" (model.go:154-168): cycle the case mode and, when the     *)
(* pattern is not empty, start a search at once.                           *)
(***************************************************************************)
NextCase(c) ==
    IF c = CaseSmart THEN CaseSensitive
    ELSE IF c = CaseSensitive THEN CaseInsensitive
    ELSE CaseSmart

\* Mutant: a change of the case mode never starts a search.
CaseChangeNeverSearches(pattern) == FALSE

\* if pattern != "" (model.go:165)
CaseChangeSearches(pattern) == pattern # ""

CtrlT ==
    /\ caseSensitivity' = NextCase(caseSensitivity)
    /\ IF CaseChangeSearches(patternInput)
       THEN executeSearch(patternInput, pathInput, 0)
       ELSE UNCHANGED searchVars
    /\ UNCHANGED <<inputVars, now, ticks, loads, burstFirst, limits, libVars, uiVars, aborted>>

(***************************************************************************)
(* case "enter" (part_004:344-367): with the dropdown open the highlighted *)
(* type replaces the last part of the types input and a search starts at   *)
(* once; otherwise the selected match is opened in the editor, which keeps *)
(* the event loop waiting until it exits (part_004:604-623).               *)
(***************************************************************************)
\* The types input after the highlighted type is taken.
ConfirmedTypes(typ, selectedType) ==
    LET parts == Split(typ)
    IN Join([parts EXCEPT ![Len(parts)] = selectedType])

KeyEnter ==
    IF dropdownVisible /\ Len(filteredTypes) > 0
    THEN LET newVal == ConfirmedTypes(typesInput, filteredTypes[dropdownIndex + 1]) IN
         Rendering("key", ResultsViewPanics(results, resultsWidth),
            /\ typesInput' = newVal
            /\ dropdownVisible' = FALSE
            /\ fileTypes' = parseTypes(newVal)
            /\ executeSearch(patternInput, pathInput, 0)
            /\ UNCHANGED <<inputVars, caseSensitivity, focused, lastFileTypes,
                           filteredTypes, dropdownIndex, viewVars, ctrlVars,
                           editorDone, now, ticks, loads, burstFirst, limits, libVars>>)
    ELSE /\ IF selectedIndex < Len(results) /\ Len(results) > 0
            THEN /\ editorDone = "none"
                 /\ \E err \in BOOLEAN : editorDone' = IF err THEN "err" ELSE "ok"
            ELSE UNCHANGED editorDone
         /\ UNCHANGED <<modelVars, focused, typeVars, viewVars, ctrlVars, now,
                        ticks, sessions, loads, burstFirst, limits, libVars, aborted>>

\* case editorFinishedMsg (model.go:272-278)
HandleEditorFinished ==
    /\ editorDone # "none"
    /\ editorDone' = "none"
    /\ errorMessage' = IF editorDone = "err" THEN "Editor error" ELSE ""
    /\ UNCHANGED <<inputVars, caseSensitivity, listVars, searching, searchStart,
                   searchTime, previewVars, searchCancel, focused, typeVars,
                   viewVars, ctrlVars, now, ticks, sessions, loads, burstFirst,
                   limits, libVars, aborted>>

(***************************************************************************)
(* case "esc" (part_004:369-384): close the dropdown; or, in the types     *)
(* input, clear it and start a search at once; or fall through to the tail.*)
(***************************************************************************)
KeyEsc ==
    IF dropdownVisible
    THEN Rendering("key", ResultsViewPanics(results, resultsWidth),
            /\ dropdownVisible' = FALSE
            /\ UNCHANGED <<modelVars, focused, typesInput, fileTypes,
                           lastFileTypes, filteredTypes, dropdownIndex, viewVars,
                           ctrlVars, editorDone, now, ticks, sessions, loads,
                           burstFirst, limits, libVars>>)
    ELSE IF focused = focusTypes
    THEN /\ typesInput' = <<>>
         /\ fileTypes' = <<>>
         /\ executeSearch(patternInput, pathInput, 0)
         /\ UNCHANGED <<inputVars, caseSensitivity, focused, lastFileTypes,
                        filteredTypes, dropdownVisible, dropdownIndex, viewVars,
                        ctrlVars, editorDone, now, ticks, loads, burstFirst,
                        limits, libVars, aborted>>
    ELSE InputTail(patternInput, pathInput, typesInput, TRUE)

(***************************************************************************)
(* case tea.WindowSizeMsg (model.go:219-238): the list takes a third of    *)
(* the width, the preview the rest less 5, and both are drawn again.       *)
(***************************************************************************)
WindowSize ==
    \E w \in WindowWidths :
        LET listWidth == w \div 3
            pWidth == w - listWidth - 5 IN
        Rendering("window", ResultsViewPanics(results, listWidth)
                               \/ PreviewViewPanics(previewLines, pWidth),
            /\ resultsWidth' = listWidth
            /\ previewWidth' = pWidth
            /\ UNCHANGED <<modelVars, focused, typeVars, ctrlVars, editorDone,
                           now, ticks, sessions, loads, burstFirst, limits, libVars>>)

(***************************************************************************)
(* case debounceMsg (model.go:240-244).                                    *)
(***************************************************************************)
\* Mutants of the token test: every trigger is honoured; a trigger is honoured
\* unless it is newer than the current token.
DebounceAlways(token, current) == TRUE

DebounceNotNewer(token, current) == token <= current

DebounceHonoured(token, current) == token = current

HandleDebounce ==
    \E t \in ticks :
        /\ ticks' = ticks \ {t}
        /\ IF DebounceHonoured(t.token, debounceToken)
           THEN executeSearch(t.pattern, t.path, t.token)
           ELSE UNCHANGED searchVars
        /\ UNCHANGED <<inputVars, caseSensitivity, now, loads, burstFirst, limits, libVars, uiVars, aborted>>

(***************************************************************************)
(* case searchResultMsg (model.go:246-265) and case searchErrorMsg         *)
(* (model.go:267-270).  Neither message names the session it comes from.   *)
(***************************************************************************)
\* Mutants of the cap: no truncation; truncation that keeps the newest matches.
AppendUncapped(res, matches) == res \o matches

AppendKeepNewest(res, matches) ==
    LET all == res \o matches
    IN IF Len(all) <= maxResults THEN all
       ELSE SubSeq(all, Len(all) - maxResults + 1, Len(all))

AppendCapped(res, matches) == Take(res \o matches, maxResults)

HandleSearchResult ==
    \E s \in 1..Len(sessions) : \E readable \in limits.readable :
        /\ sessions[s].pc = "sent"
        /\ sessions[s].msg.type = "result"
        /\ Rendering("batch",
                     ResultsViewPanics(AppendCapped(results, sessions[s].msg.matches),
                                       resultsWidth),
            /\ results' = AppendCapped(results, sessions[s].msg.matches)
            /\ matchCount' = Len(results) + Len(sessions[s].msg.matches)
            /\ IF sessions[s].msg.done
               THEN searching' = FALSE /\ searchTime' = now - searchStart
               ELSE UNCHANGED <<searching, searchTime>>
            /\ loads' = IF Len(results') > 0 /\ previewPath = ""
                        THEN loadPreview(results', selectedIndex, readable)
                        ELSE loads
            /\ sessions' = [sessions EXCEPT ![s].pc = "done"]
            /\ UNCHANGED <<inputVars, caseSensitivity, selectedIndex, errorMessage,
                           searchStart, previewVars, searchCancel, now, ticks,
                           burstFirst, limits, libVars, uiVars>>)

HandleSearchError ==
    \E s \in 1..Len(sessions) :
        /\ sessions[s].pc = "sent"
        /\ sessions[s].msg.type = "error"
        /\ errorMessage' = "err"
        /\ searching' = FALSE
        /\ sessions' = [sessions EXCEPT ![s].pc = "done"]
        /\ UNCHANGED <<inputVars, caseSensitivity, listVars, searchStart,
                       searchTime, previewVars, searchCancel, now, ticks, loads,
                       burstFirst, limits, libVars, uiVars, aborted>>

(***************************************************************************)
(* The navigation keys (model.go:170-184, 192-211; part_004:315-342).  The *)
(* list is drawn again when the handler says so: up and down only when the *)
(* selection moved.  With the dropdown open, up and down move its          *)
(* highlight instead, round the ends.                                      *)
(***************************************************************************)
Navigate(idx, always) ==
    \E readable \in limits.readable :
        Rendering("key", (always \/ idx # selectedIndex)
                            /\ ResultsViewPanics(results, resultsWidth),
            /\ selectedIndex' = idx
            /\ loads' = IF always \/ idx # selectedIndex
                        THEN loadPreview(results, idx, readable)
                        ELSE loads
            /\ UNCHANGED <<inputVars, caseSensitivity, results, matchCount,
                           statusVars, previewVars, searchCancel, now, ticks,
                           sessions, burstFirst, limits, libVars, uiVars>>)

DropdownMove(idx) ==
    /\ dropdownIndex' = idx
    /\ UNCHANGED <<modelVars, focused, typesInput, fileTypes, lastFileTypes,
                   filteredTypes, dropdownVisible, viewVars, ctrlVars,
                   editorDone, now, ticks, sessions, loads, burstFirst, limits, libVars,
                   aborted>>

\* case "up", "ctrl+p"
KeyUp ==
    IF dropdownVisible
    THEN DropdownMove(IF dropdownIndex > 0 THEN dropdownIndex - 1
                      ELSE Len(filteredTypes) - 1)
    ELSE Navigate(IF selectedIndex > 0 THEN selectedIndex - 1 ELSE selectedIndex,
                  FALSE)

\* case "down", "ctrl+n"
KeyDown ==
    IF dropdownVisible
    THEN DropdownMove(IF dropdownIndex < Len(filteredTypes) - 1
                      THEN dropdownIndex + 1 ELSE 0)
    ELSE Navigate(IF selectedIndex < Len(results) - 1 THEN selectedIndex + 1
                  ELSE selectedIndex, FALSE)

\* case "pgup"
KeyPgUp == Navigate(Max(0, selectedIndex - pageJump), TRUE)

\* case "pgdown"
KeyPgDown ==
    Navigate(Max(0, IF selectedIndex + pageJump >= Len(results)
                    THEN Len(results) - 1 ELSE selectedIndex + pageJump), TRUE)

\* case tea.MouseButtonWheelUp (part_004:417-425)
MouseWheelUp == Navigate(Max(0, selectedIndex - wheelStep), TRUE)

\* Mutant of the wheel: the step down is not held at the end of the list.
MouseWheelDownUnclamped == Navigate(selectedIndex + wheelStep, TRUE)

\* case tea.MouseButtonWheelDown (part_004:427-438)
MouseWheelDown ==
    Navigate(Max(0, IF selectedIndex + wheelStep >= Len(results)
                    THEN Len(results) - 1 ELSE selectedIndex + wheelStep), TRUE)

(***************************************************************************)
(* case previewLoadedMsg (model.go:280-289).                               *)
(***************************************************************************)
PreviewAccepted(msg) ==
    /\ selectedIndex < Len(results)
    /\ results[selectedIndex + 1].Path = msg.path

HandlePreviewLoaded ==
    \E msg \in loads :
        Rendering(IF msg.err THEN "preview error" ELSE "preview",
                  PreviewAccepted(msg) /\ PreviewViewPanics(msg.lines, previewWidth),
            /\ loads' = loads \ {msg}
            /\ IF PreviewAccepted(msg)
               THEN /\ previewPath' = msg.path
                    /\ previewLines' = msg.lines
                    /\ previewStart' = msg.startLine
                    /\ previewMatch' = msg.matchLine
               ELSE UNCHANGED previewVars
            /\ UNCHANGED <<inputVars, caseSensitivity, listVars, statusVars,
                           searchCancel, now, ticks, sessions, burstFirst, limits, libVars,
                           uiVars>>)

(***************************************************************************)
(* The command returned by executeSearch (model.go:382-416), on its own    *)
(* goroutine: it calls Searcher.Search, then batches what the conduit      *)
(* delivers and returns ONE message.                                       *)
(***************************************************************************)
\* The program has not ended: its goroutines end with it.
Running == ~quit /\ aborted = "none"

Worker(s, upd) ==
    /\ Running
    /\ sessions' = [sessions EXCEPT ![s] = upd]
    /\ UNCHANGED <<modelVars, now, ticks, loads, burstFirst, limits, libVars, uiVars, aborted>>

\* Searcher.Search up to its return (part_003:338-380, 437).  An empty pattern
\* closes the conduit at once; a failed spawn closes it and returns the error
\* (exec's Start fails on a context that is already cancelled, or when rg
\* cannot be run); otherwise the reader goroutine starts.
\* Mutant of Search: no test for the empty pattern.
SearchOutcomeNoEmptyTest(pattern, cancelled, spawns) ==
    IF cancelled \/ ~spawns THEN "error" ELSE "reading"

SearchOutcome(pattern, cancelled, spawns) ==
    IF pattern = "" THEN "empty"
    ELSE IF cancelled \/ ~spawns THEN "error"
    ELSE "reading"

\* Mutant of close(results): the conduit is left open.
CloseResultsNever(ss) == ss

\* close(results) (part_003:340, 373, 377, 383).  closes is history: how often
\* the conduit of the session has been closed.
CloseResults(ss) == [ss EXCEPT !.rd = "closed", !.closes = @ + 1]

\* Mutant of the failed spawn: the error is returned and the conduit left open.
SpawnFailedOpen(ss) == [ss EXCEPT !.pc = "sent", !.msg = searchErrorMsg]

\* close(results); return err (part_003:371-379), and the command returns
\* searchErrorMsg{err} (model.go:386-388).
SpawnFailed(ss) ==
    [CloseResults(ss) EXCEPT !.pc = "sent", !.msg = searchErrorMsg]

WorkerSearch ==
    \E s \in 1..Len(sessions) : \E spawns \in BOOLEAN :
        LET ss == sessions[s]
            outcome == SearchOutcome(ss.pattern, ss.cancelled, spawns) IN
        /\ ss.pc = "start"
        /\ IF outcome = "empty"
           THEN /\ spawns
                /\ Worker(s, [CloseResults(ss) EXCEPT !.pc = "loop"])
           ELSE IF outcome = "error"
           THEN Worker(s, SpawnFailed(ss))
           ELSE Worker(s, [ss EXCEPT !.pc = "loop", !.rd = "scan"])

\* Mutant of the count trigger: > for >=.
CountTriggerLate(batch) == Len(batch) > batchThreshold

\* len(batch) >= 100 (model.go:403)
CountTrigger(batch) == Len(batch) >= batchThreshold

\* The command returns msg: its goroutine ends and the message is in flight.
\* why is history: the case of the loop that returned.
Return(ss, msg, why) ==
    [ss EXCEPT !.batch = <<>>, !.ticked = FALSE, !.pc = "sent", !.msg = msg,
               !.why = why]

\* case match, ok := <-results with ok (model.go:397-405)
BatchReceive ==
    \E s \in 1..Len(sessions) :
        LET ss == sessions[s]
            batch == Append(ss.batch, Head(ss.chan))
            rest == [ss EXCEPT !.chan = Tail(ss.chan)] IN
        /\ ss.pc = "loop"
        /\ ss.chan # <<>>
        /\ IF CountTrigger(batch)
           THEN Worker(s, Return(rest, searchResultMsg(batch, FALSE), "count"))
           ELSE Worker(s, [rest EXCEPT !.batch = batch])

\* case match, ok := <-results with !ok (model.go:398-400)
BatchClosed ==
    \E s \in 1..Len(sessions) :
        LET ss == sessions[s] IN
        /\ ss.pc = "loop"
        /\ ss.chan = <<>>
        /\ ss.rd = "closed"
        /\ Worker(s, Return(ss, searchResultMsg(ss.batch, TRUE), "closed"))

\* The 50 ms ticker of the command (model.go:393) delivers a tick: its channel
\* holds one tick at most, and a tick stays there until the loop takes it.
TickerFires ==
    \E s \in 1..Len(sessions) :
        LET ss == sessions[s] IN
        /\ ss.pc = "loop"
        /\ ~ss.ticked
        /\ Worker(s, [ss EXCEPT !.ticked = TRUE])

\* Mutant of the timer trigger: a buffer of one match is held across the tick.
TimerFlushLate(batch) == Len(batch) > 1

\* len(batch) > 0 (model.go:408)
TimerFlush(batch) == Len(batch) > 0

\* case <-batchTicker.C (model.go:407-410): a non-empty batch is returned; with
\* an empty batch the loop goes round again.
BatchTick ==
    \E s \in 1..Len(sessions) :
        LET ss == sessions[s] IN
        /\ ss.pc = "loop"
        /\ ss.ticked
        /\ IF TimerFlush(ss.batch)
           THEN Worker(s, Return(ss, searchResultMsg(ss.batch, FALSE), "timer"))
           ELSE Worker(s, [ss EXCEPT !.ticked = FALSE])

\* case <-m.searchCtx.Done() (model.go:412-413)
BatchCancelled ==
    \E s \in 1..Len(sessions) :
        LET ss == sessions[s] IN
        /\ ss.pc = "loop"
        /\ ss.cancelled
        /\ Worker(s, Return(ss, searchResultMsg(ss.batch, TRUE), "cancelled"))

(***************************************************************************)
(* The reader goroutine of Searcher.Search (part_003:382-431).             *)
(***************************************************************************)
\* Mutant of the decoding: the type of a well-formed line is not looked at.
YieldsAnyRecord(kind) == kind # "garbage"

\* What the two-phase decoding makes of a line (part_003:397-409): only a
\* well-formed match line yields a Match.
YieldsMatch(kind) == kind = "match"

\* scanner.Scan() returns a line and the context is not done (part_003:390-423).
ReaderScan ==
    \E s \in 1..Len(sessions) : \E kind \in limits.kinds :
      \E f \in limits.files : \E t \in limits.texts :
        LET ss == sessions[s] IN
        /\ ss.rd = "scan"
        /\ ~ss.cancelled
        /\ ss.nMatch + ss.nSkip < limits.lines
        /\ IF YieldsMatch(kind)
           THEN Worker(s, [ss EXCEPT !.nMatch = @ + 1, !.lastKind = kind,
                                     !.pending = Match(s, ss.nMatch + 1, f, t),
                                     !.rd = "send"])
           ELSE Worker(s, [ss EXCEPT !.nSkip = @ + 1, !.lastKind = kind])

\* case results <- match (part_003:425-426): room in the buffered conduit.
ReaderSend ==
    \E s \in 1..Len(sessions) :
        LET ss == sessions[s] IN
        /\ ss.rd = "send"
        /\ Len(ss.chan) < resultsCap
        /\ Worker(s, [ss EXCEPT !.chan = Append(@, ss.pending),
                                !.pending = NoMatch, !.rd = "scan"])

\* The process closed its output: scanner.Scan() returns false and the
\* deferred close(results) runs (part_003:383, 390).
ReaderEOF ==
    \E s \in 1..Len(sessions) :
        LET ss == sessions[s] IN
        /\ ss.rd = "scan"
        /\ Worker(s, CloseResults(ss))

\* The context is done: the check before a line (part_003:391-395), the send's
\* other case (part_003:427-428), or the killed process ending the output.
\* Mutant: the send does not watch the context.
CancelSeenBetweenReads(rd) == rd = "scan"

\* Where the reader sees that the context is done.
CancelSeen(rd) == rd \in {"scan", "send"}

ReaderCancelled ==
    \E s \in 1..Len(sessions) :
        LET ss == sessions[s] IN
        /\ CancelSeen(ss.rd)
        /\ ss.cancelled
        /\ Worker(s, [CloseResults(ss) EXCEPT !.pending = NoMatch])

\* The wall clock advances.
Tick ==
    /\ now < limits.time
    /\ now' = now + 1
    /\ UNCHANGED <<modelVars, ticks, sessions, loads, burstFirst, limits, libVars, uiVars, aborted>>

(***************************************************************************)
(* Path completion (paths.go).  Paths and inputs are sequences of          *)
(* characters; the program compares them byte by byte.                     *)
(***************************************************************************)
\* The characters that occur, in the order of their bytes.
ByteOrder == <<".", "/", "I", "U", "a", "d", "e", "g", "i", "l", "m", "n", "o",
               "r", "s", "t", "u", "x">>

Byte(c) == CHOOSE i \in 1..Len(ByteOrder) : ByteOrder[i] = c

\* strings.ToLower
Lower(c) == CASE c = "U" -> "u" [] c = "I" -> "i" [] OTHER -> c

ToLower(str) == [i \in 1..Len(str) |-> Lower(str[i])]

\* os.PathSeparator of the platform the program is built for.
Separator == "/"

\* filepath.ToSlash: every separator becomes a slash.
ToSlash(str) ==
    IF Separator = "/" THEN str
    ELSE [i \in 1..Len(str) |-> IF str[i] = Separator THEN "/" ELSE str[i]]

\* strings.Contains
Contains(str, sub) ==
    \E i \in 0..(Len(str) - Len(sub)) : SubSeq(str, i + 1, i + Len(sub)) = sub

\* filepath.Base: "." for the empty path; trailing slashes are dropped, then
\* what follows the last slash is the base; a path of slashes only gives "/".
Base(path) ==
    IF path = <<>> THEN <<".">>
    ELSE LET n == IF \A i \in 1..Len(path) : path[i] = "/" THEN 0
                  ELSE CHOOSE i \in 1..Len(path) :
                         path[i] # "/" /\ \A j \in (i + 1)..Len(path) : path[j] = "/"
             k == IF \A j \in 1..n : path[j] # "/" THEN 0
                  ELSE CHOOSE j \in 1..n :
                         path[j] = "/" /\ \A h \in (j + 1)..n : path[h] # "/"
         IN IF n = 0 THEN <<"/">> ELSE SubSeq(path, k + 1, n)

\* Mutants of the score: the case is not folded; the base name is not looked at.
scorePathMatchCased(input, path) ==
    LET in == ToSlash(input)
        pathLower == ToSlash(path)
    IN IF in = pathLower THEN 2000
       ELSE IF HasPrefix(pathLower, in) THEN 1000
       ELSE IF HasPrefix(Base(pathLower), in) THEN 800
       ELSE IF Contains(pathLower, <<"/">> \o in) THEN 500
       ELSE IF Contains(pathLower, in) THEN 100
       ELSE 0

scorePathMatchNoBase(input, path) ==
    LET in == ToLower(ToSlash(input))
        pathLower == ToLower(ToSlash(path))
    IN IF in = pathLower THEN 2000
       ELSE IF HasPrefix(pathLower, in) THEN 1000
       ELSE IF Contains(pathLower, <<"/">> \o in) THEN 500
       ELSE IF Contains(pathLower, in) THEN 100
       ELSE 0

\* scorePathMatch (paths.go:124-152)
scorePathMatch(input, path) ==
    LET in == ToLower(ToSlash(input))
        pathLower == ToLower(ToSlash(path))
    IN IF in = pathLower THEN 2000
       ELSE IF HasPrefix(pathLower, in) THEN 1000
       ELSE IF HasPrefix(Base(pathLower), in) THEN 800
       ELSE IF Contains(pathLower, <<"/">> \o in) THEN 500
       ELSE IF Contains(pathLower, in) THEN 100
       ELSE 0

\* PathEntry (paths.go:19-23) as the walk makes it: no score yet.
PathEntry(path, isDir) == [Path |-> path, IsDir |-> isDir, Score |-> 0]

\* a < b for Go strings: byte by byte, a proper prefix first.
RECURSIVE StrLess(_, _)
StrLess(a, b) ==
    IF b = <<>> THEN FALSE
    ELSE IF a = <<>> THEN TRUE
    ELSE IF a[1] = b[1] THEN StrLess(Tail(a), Tail(b))
    ELSE Byte(a[1]) < Byte(b[1])

\* Mutant of the order: the lower score first.
PathLessAscending(a, b) ==
    IF a.Score # b.Score THEN a.Score < b.Score ELSE StrLess(a.Path, b.Path)

\* The less function of sortPathMatches (paths.go:155-160).
PathLess(a, b) ==
    IF a.Score # b.Score THEN a.Score > b.Score ELSE StrLess(a.Path, b.Path)

\* sort.Slice with that function (paths.go:154-161): the entries in the one
\* order it allows when no two entries have the same score and path.
RECURSIVE InsertSorted(_, _)
InsertSorted(e, sorted) ==
    IF sorted = <<>> THEN <<e>>
    ELSE IF PathLess(e, sorted[1]) THEN <<e>> \o sorted
    ELSE <<sorted[1]>> \o InsertSorted(e, Tail(sorted))

RECURSIVE sortPathMatches(_)
sortPathMatches(matches) ==
    IF matches = <<>> THEN <<>>
    ELSE InsertSorted(matches[1], sortPathMatches(Tail(matches)))

\* PathProvider.FilterPaths (paths.go:101-122): nil for the empty input;
\* otherwise the entries that score above 0, each a copy that carries its
\* score, sorted and cut to maxPathResults.
\* Mutant of the loop of FilterPaths: the score is written into the slice
\* that was handed in.
ScoreEntryInPlace(array, i, score) == [array EXCEPT ![i].Score = score]

\* entry.Score = score (paths.go:110): entry is the loop's copy of the i-th
\* element, so the slice that was handed in stays as it is.
ScoreEntry(array, i, score) == array

\* The loop over allPaths (paths.go:107-113) from the i-th element on: the
\* slice handed in as the loop leaves it, and the matches collected.
RECURSIVE FilterLoop(_, _, _, _)
FilterLoop(input, array, i, matches) ==
    IF i > Len(array) THEN [array |-> array, matches |-> matches]
    ELSE LET entry == array[i]
             score == scorePathMatch(input, entry.Path)
         IN IF score > 0
            THEN FilterLoop(input, ScoreEntry(array, i, score), i + 1,
                            Append(matches, [entry EXCEPT !.Score = score]))
            ELSE FilterLoop(input, array, i + 1, matches)

\* FilterPaths with what it leaves in the slice handed in.
FilterPathsRun(input, allPaths) ==
    IF input = <<>> THEN [out |-> <<>>, array |-> allPaths]
    ELSE LET loop == FilterLoop(input, allPaths, 1, <<>>)
         IN [out |-> Take(sortPathMatches(loop.matches), maxPathResults),
             array |-> loop.array]

FilterPaths(input, allPaths) == FilterPathsRun(input, allPaths).out

\* A goroutine outside the event loop; the event loop and the search
\* sessions stand still.
Library(changed) ==
    /\ changed
    /\ UNCHANGED <<modelVars, focused, typeVars, viewVars, ctrlVars, editorDone,
                   now, ticks, sessions, loads, burstFirst, limits, aborted>>

\* One call of FilterPaths with the arguments the initial state has drawn.
CallFilterPaths ==
    /\ ~filterCall.made
    /\ Library(/\ filterCall' = [filterCall EXCEPT
                      !.made = TRUE,
                      !.out = FilterPaths(filterCall.input, filterCall.allPaths)]
               /\ UNCHANGED <<providerVars, highlighters, hlCall, hmCall, libCall, searcher>>)

(***************************************************************************)
(* PathProvider.LoadPaths (paths.go:40-62) and walkDirectory               *)
(* (paths.go:64-99).  The directory is a list of what lies under root:     *)
(* for every entry its path, whether it is a directory, the depth of the   *)
(* directory it lies in, and whether the walk skips it (a hidden name,     *)
(* node_modules, vendor, or anything below one of these).                  *)
(***************************************************************************)
DirEntry(path, isDir, depth, skipped) ==
    [Path |-> path, IsDir |-> isDir, depth |-> depth, skipped |-> skipped]

\* The directory d/d/.../d, n levels below root.
Nested(n) == [i \in 1..(2 * n - 1) |-> IF i % 2 = 1 THEN "d" ELSE "/"]

\* Two states of the directory: a file and a hidden directory; then a chain
\* of directories more, with a file below the last of them.
DirListings ==
    LET base == << DirEntry(<<"a">>, FALSE, 0, FALSE),
                   DirEntry(<<".", "g">>, TRUE, 0, TRUE) >>
        chain == [n \in 1..pathMaxDepth |-> DirEntry(Nested(n), TRUE, n - 1, FALSE)]
        deep == DirEntry(Nested(pathMaxDepth) \o <<"/", "x">>, FALSE, pathMaxDepth, FALSE)
    IN { base, base \o chain \o <<deep>> }

\* walkDirectory: the entries above the depth limit that are not skipped, in
\* the order of the directory.
walkDirectory(d) ==
    LET Walked(e) == e.depth < pathMaxDepth /\ ~e.skipped
        found == SelectSeq(d, Walked)
    IN [i \in 1..Len(found) |-> PathEntry(found[i].Path, found[i].IsDir)]

\* Mutant of the test of the cache: it never expires.
CacheValidNoExpiry(ct, ch, clock) == ch.set

\* time.Since(p.cacheTime) < p.ttl && p.cache != nil (paths.go:42); the zero
\* time lies further back than any ttl.
CacheValid(ct, ch, clock) ==
    /\ ~ct.zero
    /\ clock - ct.t < pathCacheTTL
    /\ ch.set

\* Mutant of the second test: the writer does not look again.
StillValidSkipped(ct, ch, clock) == FALSE

\* The same test again, under the write lock (paths.go:52).
StillValid(ct, ch, clock) == CacheValid(ct, ch, clock)

\* A goroutine that is not inside LoadPaths.  via is history: how the last
\* call returned.
\* of is history too: the walk whose slice the last call returned.
IdleCaller == [pc |-> "idle", calls |-> 0, ret |-> NilCache, paths |-> <<>>,
               via |-> "none", of |-> 0]

Callers == DOMAIN callers

\* Caller c goes on to upd, and the provider changes as changed says.
Caller(c, upd, changed) ==
    Library(/\ callers' = [callers EXCEPT ![c] = upd]
            /\ changed
            /\ UNCHANGED <<filterCall, highlighters, hlCall, hmCall, libCall, searcher>>)

\* LoadPaths returns entries.
Returned(cl, entries, via) ==
    [cl EXCEPT !.pc = "idle", !.calls = cl.calls + 1, !.ret = entries,
               !.via = via, !.paths = <<>>,
               !.of = IF via = "walk" THEN Len(walkLog) + 1 ELSE Len(walkLog)]

LoadPathsCall ==
    \E c \in Callers :
        /\ callers[c].pc = "idle"
        /\ callers[c].calls < MaxCalls
        /\ Caller(c, [callers[c] EXCEPT !.pc = "rlock"],
                  UNCHANGED <<dir, cache, cacheTime, cacheMu, walkLog>>)

\* p.cacheMu.RLock() (paths.go:41): not while a writer holds the lock or
\* waits for it.
RLock ==
    \E c \in Callers :
        /\ callers[c].pc = "rlock"
        /\ cacheMu.writer = 0
        /\ \A o \in Callers : callers[o].pc # "lock"
        /\ Caller(c, [callers[c] EXCEPT !.pc = "check"],
                  /\ cacheMu' = [cacheMu EXCEPT !.readers = @ \cup {c}]
                  /\ UNCHANGED <<dir, cache, cacheTime, walkLog>>)

\* paths.go:42-46: return the cache if it is valid, else give the read lock
\* back and go for the write lock.
ReadCheck ==
    \E c \in Callers :
        /\ callers[c].pc = "check"
        /\ Caller(c, IF CacheValid(cacheTime, cache, now)
                     THEN Returned(callers[c], cache, "read")
                     ELSE [callers[c] EXCEPT !.pc = "lock"],
                  /\ cacheMu' = [cacheMu EXCEPT !.readers = @ \ {c}]
                  /\ UNCHANGED <<dir, cache, cacheTime, walkLog>>)

\* p.cacheMu.Lock() (paths.go:48)
Lock ==
    \E c \in Callers :
        /\ callers[c].pc = "lock"
        /\ cacheMu.writer = 0
        /\ cacheMu.readers = {}
        /\ Caller(c, [callers[c] EXCEPT !.pc = "recheck"],
                  /\ cacheMu' = [cacheMu EXCEPT !.writer = c]
                  /\ UNCHANGED <<dir, cache, cacheTime, walkLog>>)

\* paths.go:51-54
Recheck ==
    \E c \in Callers :
        /\ callers[c].pc = "recheck"
        /\ IF StillValid(cacheTime, cache, now)
           THEN Caller(c, Returned(callers[c], cache, "recheck"),
                       /\ cacheMu' = [cacheMu EXCEPT !.writer = 0]
                       /\ UNCHANGED <<dir, cache, cacheTime, walkLog>>)
           ELSE Caller(c, [callers[c] EXCEPT !.pc = "walk"],
                       UNCHANGED <<dir, cache, cacheTime, cacheMu, walkLog>>)

\* paths.go:56-57
Walk ==
    \E c \in Callers :
        /\ callers[c].pc = "walk"
        /\ Caller(c, [callers[c] EXCEPT !.pc = "store", !.paths = walkDirectory(dir)],
                  UNCHANGED <<dir, cache, cacheTime, cacheMu, walkLog>>)

\* p.cache = paths (paths.go:59)
Store ==
    \E c \in Callers :
        /\ callers[c].pc = "store"
        /\ Caller(c, [callers[c] EXCEPT !.pc = "stamp"],
                  /\ cache' = [set |-> TRUE, entries |-> callers[c].paths]
                  /\ UNCHANGED <<dir, cacheTime, cacheMu, walkLog>>)

\* p.cacheTime = time.Now(); return paths, and the deferred Unlock
\* (paths.go:49, 60-61).
Stamp ==
    \E c \in Callers :
        /\ callers[c].pc = "stamp"
        /\ Caller(c, Returned(callers[c],
                              [set |-> TRUE, entries |-> callers[c].paths], "walk"),
                  /\ cacheTime' = [zero |-> FALSE, t |-> now]
                  /\ cacheMu' = [cacheMu EXCEPT !.writer = 0]
                  /\ walkLog' = Append(walkLog,
                        [t |-> now, by |-> c, entries |-> callers[c].paths])
                  /\ UNCHANGED <<dir, cache>>)

\* Somebody changes the directory.
FsChange ==
    \E d \in DirListings \ {dir} :
        Library(/\ dir' = d
                /\ UNCHANGED <<cache, cacheTime, cacheMu, callers, walkLog,
                               filterCall, highlighters, hlCall, hmCall, libCall, searcher>>)

\* The inputs of the completion while the cache is followed.
FilterQueries == {<<>>, <<"a">>, <<"d">>}

\* The slice caller c got from LoadPaths is the one p.cache holds: it comes
\* from the last walk, and no newer walk has stored its own.
HoldsCache(c) ==
    /\ callers[c].ret.set
    /\ callers[c].of = Len(walkLog)
    /\ \A o \in Callers : callers[o].pc # "stamp"

\* A goroutine calls FilterPaths on the slice its last LoadPaths returned,
\* outside any lock.  What the call leaves in that slice is left in the cache
\* when the cache holds the same slice.  prev and cached are history: the
\* input of the call before, and whether the slice was the cache's.
FilterCached ==
    \E c \in Callers, input \in FilterQueries :
        LET run == FilterPathsRun(input, callers[c].ret.entries) IN
        /\ callers[c].pc = "idle"
        /\ callers[c].ret.set
        /\ Library(/\ filterCall' = [made |-> TRUE, input |-> input,
                                     allPaths |-> callers[c].ret.entries,
                                     out |-> run.out,
                                     prev |-> IF filterCall.made
                                              THEN <<filterCall.input>> ELSE <<>>,
                                     cached |-> HoldsCache(c)]
                   /\ callers' = [callers EXCEPT ![c].ret.entries = run.array]
                   /\ cache' = IF HoldsCache(c)
                               THEN [cache EXCEPT !.entries = run.array]
                               ELSE cache
                   /\ UNCHANGED <<dir, cacheTime, cacheMu, walkLog, highlighters,
                                  hlCall, hmCall, libCall, searcher>>)

(***************************************************************************)
(* Highlighter (highlight package).  Content is a sequence of characters;  *)
(* what chroma does with it lies outside the repository and is an outcome  *)
(* drawn by the caller: the lexer is not found, Tokenise or Format fails,   *)
(* Format writes the content as it is, or it writes it with colour codes.  *)
(***************************************************************************)
NL == "\n"

Styles == {"monokai", "nope"}

\* styles.Get(name), with styles.Fallback for a name the registry lacks.
StyleObj(name) == IF name = "monokai" THEN "monokai" ELSE "fallback"

FilePaths == {"main.go", "notes.xyz", ""}

\* DetectLanguage: by file name, then by extension, else "".
DetectLanguage(filePath) ==
    CASE filePath = "" -> ""
      [] filePath = "Makefile" -> "makefile"
      [] filePath = "main.go" -> "go"
      [] OTHER -> ""

ChromaOutcomes == {"colour", "plain", "nolexer", "error"}

\* What the terminal formatter writes: every character that is not a line
\* break between the code of the style and the reset code.
RECURSIVE Format(_, _)
Format(content, styleObj) ==
    IF content = <<>> THEN <<>>
    ELSE (IF Head(content) = NL THEN <<NL>>
          ELSE <<styleObj, Head(content), "reset">>) \o Format(Tail(content), styleObj)

\* strings.JoinLines(lines, "\n")
RECURSIVE JoinLines(_)
JoinLines(lines) ==
    IF lines = <<>> THEN <<>>
    ELSE IF Len(lines) = 1 THEN lines[1]
    ELSE lines[1] \o <<NL>> \o JoinLines(Tail(lines))

\* strings.SplitLines(str, "\n")
RECURSIVE SplitLines(_)
SplitLines(str) ==
    IF \A i \in 1..Len(str) : str[i] # NL THEN <<str>>
    ELSE LET i == CHOOSE k \in 1..Len(str) :
                     str[k] = NL /\ \A j \in 1..(k - 1) : str[j] # NL
         IN <<SubSeq(str, 1, i - 1)>> \o SplitLines(SubSeq(str, i + 1, Len(str)))

\* initialize (part_002:46-58)
initialize(h) == [h EXCEPT !.formatter = TRUE, !.styleObj = StyleObj(h.style)]

\* New (part_002:31-43)
New(enabled, style) ==
    LET h == [enabled |-> enabled, style |-> style, formatter |-> FALSE,
              styleObj |-> "nil", lexerCache |-> {}]
    IN IF enabled THEN initialize(h) ELSE h

\* Mutant of the first test of Highlight: the enabled flag is not looked at.
SkipsUninitialised(h, content) ==
    content = <<>> \/ ~h.formatter \/ h.styleObj = "nil"

\* !h.enabled || content == "" || h.formatter == nil || h.styleObj == nil
Skips(h, content) ==
    ~h.enabled \/ content = <<>> \/ ~h.formatter \/ h.styleObj = "nil"

\* Highlight: what it returns, and the lexer cache it leaves.
Highlight(h, content, filePath, outcome) ==
    LET language == DetectLanguage(filePath)
        same == [out |-> content, lexerCache |-> h.lexerCache]
        cached == h.lexerCache \cup {language}
    IN IF Skips(h, content) THEN same
       ELSE IF Len(content) > maxHighlightLength THEN same
       ELSE IF language = "" THEN same
       ELSE IF outcome = "nolexer" /\ language \notin h.lexerCache THEN same
       ELSE IF outcome = "error"
            THEN [out |-> content, lexerCache |-> cached]
       ELSE IF outcome = "plain" THEN [out |-> content, lexerCache |-> cached]
       ELSE [out |-> Format(content, h.styleObj), lexerCache |-> cached]

\* HighlightLines
HighlightLines(h, lines, filePath, outcome) ==
    LET same == [out |-> lines, lexerCache |-> h.lexerCache]
        content == JoinLines(lines)
        done == Highlight(h, content, filePath, outcome)
    IN IF ~h.enabled \/ Len(lines) = 0 THEN same
       ELSE IF \E i \in 1..Len(lines) : Len(lines[i]) > maxLineLength THEN same
       ELSE IF Len(content) > maxHighlightLength THEN same
       ELSE IF done.out = content THEN [out |-> lines, lexerCache |-> done.lexerCache]
       ELSE [out |-> SplitLines(done.out), lexerCache |-> done.lexerCache]

Highlighters == DOMAIN highlighters

\* Something happens in the highlight package.
HighlightStep(changed) ==
    Library(/\ changed
            /\ UNCHANGED <<providerVars, filterCall, hmCall, libCall, searcher>>)

SetEnabled ==
    \E i \in Highlighters, enabled \in BOOLEAN :
        LET h == [highlighters[i] EXCEPT !.enabled = enabled]
            ready == IF enabled /\ ~h.formatter THEN initialize(h) ELSE h
        IN HighlightStep(
              /\ highlighters' = [highlighters EXCEPT ![i] =
                    IF enabled THEN ready ELSE [ready EXCEPT !.lexerCache = {}]]
              /\ UNCHANGED hlCall)

\* SetStyle (part_002:172-180): the name is kept; the style object follows
\* only while highlighting is enabled.
SetStyle ==
    \E i \in Highlighters, style \in Styles :
        LET h == [highlighters[i] EXCEPT !.style = style]
        IN HighlightStep(
              /\ highlighters' = [highlighters EXCEPT ![i] =
                    IF h.enabled THEN [h EXCEPT !.styleObj = StyleObj(style)] ELSE h]
              /\ UNCHANGED hlCall)

\* Strings of at most n characters of the alphabet.
Strings(alphabet, n) ==
    UNION {[1..k -> alphabet] : k \in 0..n}

\* The contents and the lists of lines handed in.
Contents == Strings({"a", NL}, maxHighlightLength + 1)

LineLists ==
    UNION {[1..n -> Strings({"a"}, maxLineLength + 1)] : n \in 0..MaxHlLines}

CallHighlight ==
    \E i \in Highlighters, content \in Contents, filePath \in FilePaths,
       outcome \in ChromaOutcomes :
        LET done == Highlight(highlighters[i], content, filePath, outcome)
        IN HighlightStep(
              /\ highlighters' = [highlighters EXCEPT ![i].lexerCache = done.lexerCache]
              /\ hlCall' = [made |-> TRUE, fn |-> "Highlight", h |-> i,
                            was |-> highlighters[i], filePath |-> filePath,
                            content |-> content, out |-> done.out,
                            lines |-> <<>>, outLines |-> <<>>])

CallHighlightLines ==
    \E i \in Highlighters, lines \in LineLists, filePath \in FilePaths,
       outcome \in ChromaOutcomes :
        LET done == HighlightLines(highlighters[i], lines, filePath, outcome)
        IN HighlightStep(
              /\ highlighters' = [highlighters EXCEPT ![i].lexerCache = done.lexerCache]
              /\ hlCall' = [made |-> TRUE, fn |-> "HighlightLines", h |-> i,
                            was |-> highlighters[i], filePath |-> filePath,
                            content |-> <<>>, out |-> <<>>,
                            lines |-> lines, outLines |-> done.out])

(***************************************************************************)
(* highlightMatches (model.go:420-466).  The text is a sequence of         *)
(* characters, offsets count from 0 as in Go, and Render puts the text     *)
(* between the codes of the style.                                         *)
(***************************************************************************)
\* highlightStyle.Render(matchText)
Render(matchText) == <<"on">> \o matchText \o <<"off">>

\* text[from:to]
Slice(text, from, to) == SubSeq(text, from + 1, to)

\* The two loops of the sort (model.go:430-436), from the pair (i, j) on.
RECURSIVE SortFrom(_, _, _)
SortFrom(sortedMatches, i, j) ==
    IF i >= Len(sortedMatches) THEN sortedMatches
    ELSE IF j >= Len(sortedMatches) THEN SortFrom(sortedMatches, i + 1, i + 2)
    ELSE IF sortedMatches[i + 1].Start > sortedMatches[j + 1].Start
         THEN SortFrom([sortedMatches EXCEPT ![i + 1] = sortedMatches[j + 1],
                                             ![j + 1] = sortedMatches[i + 1]], i, j + 1)
         ELSE SortFrom(sortedMatches, i, j + 1)

\* The loop over the sorted submatches (model.go:441-458), from the k-th on,
\* and what follows it.
RECURSIVE WriteFrom(_, _, _, _, _)
WriteFrom(text, sortedMatches, k, lastEnd, sb) ==
    IF k > Len(sortedMatches)
    THEN IF lastEnd < Len(text) THEN sb \o Slice(text, lastEnd, Len(text)) ELSE sb
    ELSE LET start == sortedMatches[k].Start
             end == sortedMatches[k].End
         IN IF start < 0 \/ end < 0 \/ start >= Len(text) \/ end > Len(text)
                 \/ start >= end
            THEN WriteFrom(text, sortedMatches, k + 1, lastEnd, sb)
            ELSE WriteFrom(text, sortedMatches, k + 1, end,
                           (IF start > lastEnd THEN sb \o Slice(text, lastEnd, start)
                            ELSE sb) \o Render(Slice(text, start, end)))

\* Mutant of highlightMatches: a line without submatches is rendered whole.
highlightMatchesWhole(text, submatches) ==
    IF Len(submatches) = 0 THEN Render(text)
    ELSE WriteFrom(text, SortFrom(submatches, 0, 1), 1, 0, <<>>)

highlightMatches(text, submatches) ==
    IF Len(submatches) = 0 THEN text
    ELSE WriteFrom(text, SortFrom(submatches, 0, 1), 1, 0, <<>>)

\* The lines and the submatch lists handed in.
LineTexts == {<<>>, <<"a">>, <<"a", "b">>}

Submatches ==
    LET One == [Start : (-1)..MaxOffset, End : (-1)..MaxOffset]
    IN UNION {[1..n -> One] : n \in 0..MaxSubmatches}

\* A call on a line, or on what the call before returned; prevText and
\* prevEmpty keep what that call was given.
CallHighlightMatches ==
    \E fresh \in BOOLEAN, line \in LineTexts, submatches \in Submatches :
        /\ ~fresh => hmCall.made /\ hmCall.fresh
        /\ LET text == IF fresh THEN line ELSE hmCall.out
           IN Library(/\ hmCall' = [made |-> TRUE, fresh |-> fresh, text |-> text,
                                    submatches |-> submatches,
                                    out |-> highlightMatches(text, submatches),
                                    prevText |-> IF fresh THEN <<>> ELSE hmCall.text,
                                    prevEmpty |-> ~fresh /\ hmCall.submatches = <<>>]
                      /\ UNCHANGED <<providerVars, filterCall, highlighters, hlCall, libCall, searcher>>)

(***************************************************************************)
(* search.GetFileContextWithMatches (part_003:458-496), line by line.  A   *)
(* file is the list of its lines; a line is named by its number, and it is *)
(* long when it does not fit the buffer of a bufio.Scanner (64 KB, which   *)
(* this function does not raise), so that Scan stops there with an error.  *)
(***************************************************************************)
FileOf(length, longAt) == [i \in 1..length |-> [no |-> i, long |-> i = longAt]]

\* The loop over scanner.Scan() (part_003:475-484) from line currentLine on:
\* the lines appended, the last line read, and whether scanner.Err() is set.
RECURSIVE ScanFrom(_, _, _, _, _)
ScanFrom(file, currentLine, startLine, endLine, lines) ==
    IF currentLine >= Len(file)
    THEN [lines |-> lines, read |-> currentLine, err |-> FALSE]
    ELSE IF file[currentLine + 1].long
    THEN [lines |-> lines, read |-> currentLine + 1, err |-> TRUE]
    ELSE IF currentLine + 1 < startLine
    THEN ScanFrom(file, currentLine + 1, startLine, endLine, lines)
    ELSE IF currentLine + 1 > endLine
    THEN [lines |-> lines, read |-> currentLine + 1, err |-> FALSE]
    ELSE ScanFrom(file, currentLine + 1, startLine, endLine,
                  Append(lines, file[currentLine + 1].no))

\* Mutant of the start of the context: not clamped to the first line.
ContextStartUnclamped(lineNum, contextLines) == lineNum - contextLines

\* startLine (part_003:465-468)
ContextStart(lineNum, contextLines) ==
    IF lineNum - contextLines < 1 THEN 1 ELSE lineNum - contextLines

\* The call: os.Open fails, or the scan fails, or the context is returned.
ReadFileContext(opens, file, lineNum, contextLines) ==
    LET startLine == ContextStart(lineNum, contextLines)
        endLine == lineNum + contextLines
        scan == ScanFrom(file, 0, startLine, endLine, <<>>)
    IN IF ~opens
       THEN [err |-> TRUE, read |-> 0, Lines |-> <<>>, StartLine |-> 0, MatchLine |-> 0]
       ELSE IF scan.err
       THEN [err |-> TRUE, read |-> scan.read, Lines |-> <<>>, StartLine |-> 0,
             MatchLine |-> 0]
       ELSE [err |-> FALSE, read |-> scan.read, Lines |-> scan.lines,
             StartLine |-> startLine, MatchLine |-> lineNum]

\* loadPreview's command calls it with the radius previewContext (model.go:354).
CallGetFileContext ==
    /\ libCall.fn = "GetFileContextWithMatches"
    /\ ~libCall.made
    /\ Library(/\ libCall' = [libCall EXCEPT
                     !.made = TRUE,
                     !.out = ReadFileContext(libCall.opens, libCall.file,
                                             libCall.lineNum, previewContext)]
               /\ UNCHANGED <<providerVars, filterCall, highlighters, hlCall, hmCall, searcher>>)

(***************************************************************************)
(* The arguments Searcher.Search hands to exec.CommandContext              *)
(* (part_003:338-369).  The arguments are strings, taken whole.            *)
(***************************************************************************)
\* Mutant of the flag: --smart-case whatever the mode.
CaseFlagAlwaysSmart(mode) == <<"--smart-case">>

\* The switch on caseSensitivity (part_003:354-361): the flag of the mode, and
\* none for a value that is no mode.
CaseFlag(mode) ==
    CASE mode = CaseSmart -> <<"--smart-case">>
      [] mode = CaseSensitive -> <<"--case-sensitive">>
      [] mode = CaseInsensitive -> <<"--ignore-case">>
      [] OTHER -> <<>>

\* append(args[:4], append([]string{flag}, args[4:]...)...)
InsertAfterFour(args, flag) ==
    SubSeq(args, 1, 4) \o (flag \o SubSeq(args, 5, Len(args)))

\* What rg is started with; no process is started for the empty pattern.
SearchArgs(pattern, path, mode) ==
    LET args == <<"--json", "--line-number", "--column", "--max-count=1000",
                  "--", pattern>>
        withCase == IF CaseFlag(mode) = <<>> THEN args
                    ELSE InsertAfterFour(args, CaseFlag(mode))
    IN IF pattern = "" THEN [invoked |-> FALSE, args |-> <<>>]
       ELSE [invoked |-> TRUE,
             args |-> Append(withCase, IF path # "" THEN path ELSE ".")]

\* Patterns and paths of the calls followed, some of which read like options.
ArgPatterns == {"", "a", "b", "-a", "--", "--ignore-case", "--smart-case",
                "--case-sensitive", "--json"}

ArgPaths == {"", "d", ".", "--", "--ignore-case"}

CallSearchArgs ==
    /\ libCall.fn = "Search"
    /\ ~libCall.made
    /\ Library(/\ libCall' = [libCall EXCEPT
                     !.made = TRUE,
                     !.out = SearchArgs(libCall.pattern, libCall.path, libCall.mode)]
               /\ UNCHANGED <<providerVars, filterCall, highlighters, hlCall, hmCall, searcher>>)

(***************************************************************************)
(* Searcher.Search on the one Searcher of the model (part_003:369-437,     *)
(* model.go:114, 385).  Each command of executeSearch runs on a goroutine  *)
(* of its own and calls m.searcher.Search; s.cmd is a field of the shared  *)
(* Searcher, written once and read three times by every call, the last     *)
(* time by the goroutine that waits, with no lock around any of it.  An    *)
(* exec.Cmd is [by: the call that made it, piped: its Stdout is set,       *)
(* started: the call that started its process (0: none), waiters: the      *)
(* calls whose goroutine called Wait on it].                               *)
(***************************************************************************)
SearchCalls == 1..Len(searcher.calls)

\* A call acts on the Searcher; the rest of the model stands still.
SearcherStep(new) ==
    Library(/\ searcher' = new
            /\ UNCHANGED <<providerVars, filterCall, highlighters, hlCall,
                           hmCall, libCall>>)

\* if pattern == "" { close(results); return nil } (part_003:339-342):
\* s.cmd is neither written nor read.
SearchEmpty ==
    /\ Len(searcher.calls) < MaxSearches
    /\ SearcherStep([searcher EXCEPT
          !.calls = Append(@, [pc |-> "returned", own |-> 0, stdout |-> 0,
                               started |-> 0, ret |-> "ok",
                               waiter |-> "none", waited |-> 0])])

\* s.cmd = exec.CommandContext(ctx, "rg", args...) (part_003:369)
SearchCommand ==
    /\ Len(searcher.calls) < MaxSearches
    /\ LET k == Len(searcher.cmds) + 1 IN
       SearcherStep([searcher EXCEPT
          !.cmd = k,
          !.cmds = Append(@, [by |-> Len(searcher.calls) + 1, piped |-> FALSE,
                              started |-> 0, waiters |-> {}]),
          !.calls = Append(@, [pc |-> "command", own |-> k, stdout |-> 0,
                               started |-> 0, ret |-> "none",
                               waiter |-> "none", waited |-> 0])])

\* Mutant of the reads of s.cmd: the call keeps the command it made in a
\* variable of its own.
CmdReadLocal(c) == searcher.calls[c].own

\* s.cmd as call c reads it: whatever Search call wrote the field last.
CmdRead(c) == searcher.cmd

\* stdout, err := s.cmd.StdoutPipe() (part_003:371-375).  exec.Cmd refuses a
\* second pipe ("Stdout already set") and a pipe after Start.
SearchStdoutPipe ==
    \E c \in SearchCalls :
        LET k == CmdRead(c) IN
        /\ searcher.calls[c].pc = "command"
        /\ IF searcher.cmds[k].piped \/ searcher.cmds[k].started # 0
           THEN SearcherStep([searcher EXCEPT
                   !.calls[c].pc = "returned", !.calls[c].ret = "err"])
           ELSE SearcherStep([searcher EXCEPT
                   !.cmds[k].piped = TRUE,
                   !.calls[c].pc = "piped", !.calls[c].stdout = k])

\* if err := s.cmd.Start(); err != nil (part_003:376-379).  exec.Cmd refuses a
\* second Start ("already started"); rg may not be runnable (spawns).
SearchStart ==
    \E c \in SearchCalls : \E spawns \in BOOLEAN :
        LET k == CmdRead(c) IN
        /\ searcher.calls[c].pc = "piped"
        /\ IF searcher.cmds[k].started # 0 \/ ~spawns
           THEN /\ searcher.cmds[k].started # 0 => spawns
                /\ SearcherStep([searcher EXCEPT
                      !.calls[c].pc = "returned", !.calls[c].ret = "err"])
           ELSE SearcherStep([searcher EXCEPT
                   !.cmds[k].started = c,
                   !.calls[c].pc = "started", !.calls[c].started = k])

\* go func() { ... }(); go func() { s.cmd.Wait() }(); return nil
\* (part_003:381-437): the goroutines are started, Search returns.
SearchReturn ==
    \E c \in SearchCalls :
        /\ searcher.calls[c].pc = "started"
        /\ SearcherStep([searcher EXCEPT
              !.calls[c].pc = "returned", !.calls[c].ret = "ok",
              !.calls[c].waiter = "ready"])

\* s.cmd.Wait() (part_003:435), when the goroutine gets to run.
SearchWait ==
    \E c \in SearchCalls :
        LET k == CmdRead(c) IN
        /\ searcher.calls[c].waiter = "ready"
        /\ SearcherStep([searcher EXCEPT
              !.cmds[k].waiters = @ \cup {c},
              !.calls[c].waiter = "done", !.calls[c].waited = k])

(***************************************************************************)
(* Specifications.                                                         *)
(***************************************************************************)
Pipeline ==
    \/ WorkerSearch
    \/ BatchReceive
    \/ BatchClosed
    \/ TickerFires
    \/ BatchTick
    \/ BatchCancelled
    \/ ReaderScan
    \/ ReaderSend
    \/ ReaderEOF
    \/ ReaderCancelled

\* The whole event loop with one session at a time.
Init == InitWith([sessions |-> 1, lines |-> MaxLines, kinds |-> {"match"},
                  files |-> {"x.go"}, texts |-> {TextLen}, readable |-> {TRUE},
                  time |-> MaxTime])

Next ==
    \/ EditPattern
    \/ EditPath
    \/ Tab
    \/ PassThrough
    \/ CtrlT
    \/ HandleDebounce
    \/ HandleSearchResult
    \/ HandleSearchError
    \/ KeyUp
    \/ KeyDown
    \/ KeyPgUp
    \/ KeyPgDown
    \/ HandlePreviewLoaded
    \/ Pipeline
    \/ Tick

Spec == Init /\ [][Next]_vars

\* Overlapping sessions: pattern edits, immediate searches, delayed triggers
\* and the pipelines of up to MaxSessions sessions.
MultiInit == InitWith([sessions |-> MaxSessions, lines |-> MaxLines,
                       kinds |-> {"match"}, files |-> {"x.go"},
                       texts |-> {TextLen}, readable |-> {TRUE},
                       time |-> MaxTime])

MultiNext ==
    \/ EditPattern
    \/ CtrlT
    \/ HandleDebounce
    \/ HandleSearchResult
    \/ HandleSearchError
    \/ Pipeline

MultiSpec == MultiInit /\ [][MultiNext]_vars

\* Rapid changes of the pattern and of the path, with overlapping sessions of
\* processes that write one line at most.
DebounceInit == InitWith([sessions |-> MaxSessions, lines |-> 1,
                          kinds |-> {"match"}, files |-> {"x.go"},
                          texts |-> {TextLen}, readable |-> {TRUE},
                          time |-> MaxTime])

DebounceNext ==
    \/ EditPattern
    \/ EditPath
    \/ Tab
    \/ CtrlT
    \/ HandleDebounce
    \/ HandleSearchResult
    \/ HandleSearchError
    \/ Pipeline

DebounceSpec == DebounceInit /\ [][DebounceNext]_vars

\* Selection and preview: one session whose matches lie in either of two
\* files, readable or not, in a window that is resized.
PreviewInit == InitWith([sessions |-> 1, lines |-> MaxLines, kinds |-> {"match"},
                         files |-> {"x.go", "y.go"}, texts |-> {TextLen},
                         readable |-> BOOLEAN, time |-> MaxTime])

PreviewNext ==
    \/ Running /\ EditPattern
    \/ Running /\ HandleDebounce
    \/ Running /\ HandleSearchResult
    \/ Running /\ HandleSearchError
    \/ Running /\ KeyUp
    \/ Running /\ KeyDown
    \/ Running /\ KeyPgUp
    \/ Running /\ KeyPgDown
    \/ Running /\ MouseWheelUp
    \/ Running /\ MouseWheelDown
    \/ Running /\ HandlePreviewLoaded
    \/ Running /\ WindowSize
    \/ Pipeline

PreviewSpec == PreviewInit /\ [][PreviewNext]_vars

\* The keys of the later event loop: the focus, the types input and its
\* dropdown, the editor and the case mode, with one session of a process that
\* writes one line at most.
KeysInit == InitWith([sessions |-> 1, lines |-> 1, kinds |-> {"match"},
                      files |-> {"x.go"}, texts |-> {TextLen},
                      readable |-> {TRUE}, time |-> MaxTime])

KeysNext ==
    \/ Running /\ EditPattern
    \/ Running /\ EditTypes
    \/ Running /\ Tab
    \/ Running /\ KeyUp
    \/ Running /\ KeyDown
    \/ Running /\ KeyEnter
    \/ Running /\ KeyEsc
    \/ Running /\ HandleEditorFinished
    \/ Running /\ CtrlT
    \/ Running /\ HandleDebounce
    \/ Running /\ HandleSearchResult
    \/ Running /\ HandleSearchError
    \/ Pipeline

KeysSpec == KeysInit /\ [][KeysNext]_vars

\* Shutdown: a session, the clock, and Ctrl+C among the other keys.
QuitInit == InitWith([sessions |-> 1, lines |-> 1, kinds |-> {"match"},
                      files |-> {"x.go"}, texts |-> {TextLen},
                      readable |-> {TRUE}, time |-> MaxQuitTime])

QuitNext ==
    \/ Running /\ EditPattern
    \/ Running /\ CtrlT
    \/ Running /\ CtrlC
    \/ Running /\ HandleDebounce
    \/ Running /\ HandleSearchResult
    \/ Running /\ HandleSearchError
    \/ Pipeline
    \/ Running /\ Tick

QuitSpec == QuitInit /\ [][QuitNext]_vars

\* The types input with overlapping sessions: a type is typed and confirmed
\* while the session of an earlier search is still at work.
TypesInit == InitWith([sessions |-> MaxSessions, lines |-> 1,
                       kinds |-> {"match"}, files |-> {"x.go"},
                       texts |-> {TextLen}, readable |-> {TRUE},
                       time |-> MaxTime])

TypesNext ==
    \/ Running /\ EditPattern
    \/ Running /\ EditTypes
    \/ Running /\ Tab
    \/ Running /\ KeyEnter
    \/ Running /\ HandleDebounce
    \/ Running /\ HandleSearchResult
    \/ Running /\ HandleSearchError
    \/ Pipeline

TypesSpec == TypesInit /\ [][TypesNext]_vars

\* Confirming and clearing the type filter: the only searches started at once
\* are those of Enter on the dropdown and of Esc in the types input, and the
\* messages that edit no input reach the tail of Update.
ConfirmInit == InitWith([sessions |-> 1, lines |-> 1,
                         kinds |-> {"match"}, files |-> {"x.go"},
                         texts |-> {TextLen}, readable |-> {TRUE},
                         time |-> 0])

ConfirmNext ==
    \/ Running /\ EditPattern
    \/ Running /\ EditTypes
    \/ Running /\ Tab
    \/ Running /\ KeyEnter
    \/ Running /\ KeyEsc
    \/ Running /\ PassThrough
    \/ Running /\ HandleDebounce
    \/ Running /\ HandleSearchResult
    \/ Running /\ HandleSearchError
    \/ Pipeline

ConfirmSpec == ConfirmInit /\ [][ConfirmNext]_vars

\* The characters of the scored inputs and paths: two cases of a letter,
\* another letter, the separator and the dot.
ScoreChars == {"u", "U", "x", "/", "."}

\* The scores: every short input against every short path that a walk can
\* make (a path is never empty), through scorePathMatch and FilterPaths.
ScoreInit ==
    /\ NewModel([sessions |-> 1, lines |-> 1, kinds |-> {"match"},
                 files |-> {"x.go"}, texts |-> {TextLen}, readable |-> {TRUE},
                 time |-> MaxTime])
    /\ NewPathProvider
    /\ dir = <<>>
    /\ callers = <<>>
    /\ highlighters = <<>>
    /\ hlCall = NoHlCall
    /\ hmCall = NoHmCall
    /\ libCall = NoLibCall
    /\ searcher = NewSearcher
    /\ \E input \in Strings(ScoreChars, MaxInputLen) :
       \E path \in Strings(ScoreChars, MaxPathLen) \ {<<>>} :
          filterCall = [NoFilterCall EXCEPT
                           !.input = input,
                           !.allPaths = <<PathEntry(path, FALSE)>>]

ScoreNext ==
    \/ CallFilterPaths

ScoreSpec == ScoreInit /\ [][ScoreNext]_vars

\* Candidate paths of the completion.
PathInternalUi == <<"i", "n", "t", "e", "r", "n", "a", "l", "/", "u", "i">>
PathInternalUiModelGo == <<"i", "n", "t", "e", "r", "n", "a", "l", "/", "u", "i", "/", "m", "o", "d", "e", "l", ".", "g", "o">>
PathUixTestGo == <<"u", "i", "x", "/", "t", "e", "s", "t", ".", "g", "o">>
PathUi == <<"u", "i">>
PathUid == <<"u", "i", "d">>
PathGo == <<"g", "o">>
Candidates == {PathInternalUi, PathInternalUiModelGo, PathUixTestGo, PathUi,
               PathUid, PathGo}

\* The candidates in every order, all of them or some.
Orderings(S) ==
    {seq \in UNION {[1..k -> S] : k \in 0..Cardinality(S)} :
        \A i, j \in 1..Len(seq) : i # j => seq[i] # seq[j]}

FilterInputs == {<<>>, <<"u", "i">>, <<"u">>}

\* Completion over lists of candidates.
FilterInit ==
    /\ NewModel([sessions |-> 1, lines |-> 1, kinds |-> {"match"},
                 files |-> {"x.go"}, texts |-> {TextLen}, readable |-> {TRUE},
                 time |-> MaxTime])
    /\ NewPathProvider
    /\ dir = <<>>
    /\ callers = <<>>
    /\ highlighters = <<>>
    /\ hlCall = NoHlCall
    /\ hmCall = NoHmCall
    /\ libCall = NoLibCall
    /\ searcher = NewSearcher
    /\ \E input \in FilterInputs : \E paths \in Orderings(Candidates) :
          filterCall = [NoFilterCall EXCEPT
                           !.input = input,
                           !.allPaths = [i \in 1..Len(paths) |->
                                            PathEntry(paths[i], FALSE)]]

FilterNext ==
    \/ CallFilterPaths

FilterSpec == FilterInit /\ [][FilterNext]_vars

\* The path provider: goroutines call LoadPaths while the clock runs and the
\* directory changes.
ProviderInit ==
    /\ NewModel([sessions |-> 1, lines |-> 1, kinds |-> {"match"},
                 files |-> {"x.go"}, texts |-> {TextLen}, readable |-> {TRUE},
                 time |-> MaxCacheTime])
    /\ NewPathProvider
    /\ dir \in DirListings
    /\ callers = [c \in 1..MaxCallers |-> IdleCaller]
    /\ filterCall = NoFilterCall
    /\ highlighters = <<>>
    /\ hlCall = NoHlCall
    /\ hmCall = NoHmCall
    /\ libCall = NoLibCall
    /\ searcher = NewSearcher

ProviderNext ==
    \/ LoadPathsCall
    \/ RLock
    \/ ReadCheck
    \/ Lock
    \/ Recheck
    \/ Walk
    \/ Store
    \/ Stamp
    \/ FsChange
    \/ Tick

ProviderSpec == ProviderInit /\ [][ProviderNext]_vars

\* Completion over the cache: goroutines call LoadPaths and then FilterPaths
\* on what it returned, with one input after another.
CompletionInit == ProviderInit

CompletionNext ==
    \/ LoadPathsCall
    \/ RLock
    \/ ReadCheck
    \/ Lock
    \/ Recheck
    \/ Walk
    \/ Store
    \/ Stamp
    \/ FsChange
    \/ Tick
    \/ FilterCached

CompletionSpec == CompletionInit /\ [][CompletionNext]_vars

\* Highlighter instances, switched on and off and called.
HighlightInit ==
    /\ NewModel([sessions |-> 1, lines |-> 1, kinds |-> {"match"},
                 files |-> {"x.go"}, texts |-> {TextLen}, readable |-> {TRUE},
                 time |-> 0])
    /\ NewPathProvider
    /\ dir = <<>>
    /\ callers = <<>>
    /\ filterCall = NoFilterCall
    /\ highlighters \in [1..MaxHighlighters -> {New(e, "monokai") : e \in BOOLEAN}]
    /\ hlCall = NoHlCall
    /\ hmCall = NoHmCall
    /\ libCall = NoLibCall
    /\ searcher = NewSearcher

HighlightNext ==
    \/ SetEnabled
    \/ CallHighlight
    \/ CallHighlightLines

HighlightSpec == HighlightInit /\ [][HighlightNext]_vars

\* One Highlighter whose style is set and which is switched on and off
\* between the calls.
StyleInit ==
    /\ NewModel([sessions |-> 1, lines |-> 1, kinds |-> {"match"},
                 files |-> {"x.go"}, texts |-> {TextLen}, readable |-> {TRUE},
                 time |-> 0])
    /\ NewPathProvider
    /\ dir = <<>>
    /\ callers = <<>>
    /\ filterCall = NoFilterCall
    /\ highlighters \in [{1} -> {New(e, style) : e \in BOOLEAN, style \in Styles}]
    /\ hlCall = NoHlCall
    /\ hmCall = NoHmCall
    /\ libCall = NoLibCall
    /\ searcher = NewSearcher

StyleNext ==
    \/ SetEnabled
    \/ SetStyle
    \/ CallHighlight

StyleSpec == StyleInit /\ [][StyleNext]_vars

\* Calls of highlightMatches.
MatchesInit ==
    /\ NewModel([sessions |-> 1, lines |-> 1, kinds |-> {"match"},
                 files |-> {"x.go"}, texts |-> {TextLen}, readable |-> {TRUE},
                 time |-> 0])
    /\ NewPathProvider
    /\ dir = <<>>
    /\ callers = <<>>
    /\ filterCall = NoFilterCall
    /\ highlighters = <<>>
    /\ hlCall = NoHlCall
    /\ hmCall = NoHmCall
    /\ libCall = NoLibCall
    /\ searcher = NewSearcher

MatchesNext == CallHighlightMatches

MatchesSpec == MatchesInit /\ [][MatchesNext]_vars

\* Sessions that start over the state an earlier session left: matches in
\* the list, a selection further down, a preview, an error message, while the
\* clock runs.  The sessions are started at once (ctrl+t); the delayed
\* triggers of the edits stay pending.
StartInit == InitWith([sessions |-> MaxSessions, lines |-> MaxLines,
                       kinds |-> {"match"}, files |-> {"x.go"},
                       texts |-> {TextLen}, readable |-> {TRUE},
                       time |-> MaxTime])

StartNext ==
    \/ Running /\ EditPattern
    \/ Running /\ CtrlT
    \/ Running /\ HandleSearchResult
    \/ Running /\ HandleSearchError
    \/ Running /\ KeyDown
    \/ Running /\ HandlePreviewLoaded
    \/ Pipeline
    \/ Running /\ Tick

StartSpec == StartInit /\ [][StartNext]_vars

\* Preview loads: every match line of every file of up to MaxFileLines lines,
\* none or one of them long, that opens or does not.
ContextInit ==
    /\ NewModel([sessions |-> 1, lines |-> 1, kinds |-> {"match"},
                 files |-> {"x.go"}, texts |-> {TextLen}, readable |-> {TRUE},
                 time |-> 0])
    /\ NewPathProvider
    /\ dir = <<>>
    /\ callers = <<>>
    /\ filterCall = NoFilterCall
    /\ highlighters = <<>>
    /\ hlCall = NoHlCall
    /\ hmCall = NoHmCall
    /\ \E length \in 1..MaxFileLines : \E longAt \in 0..length :
       \E lineNum \in 1..length : \E opens \in BOOLEAN :
          libCall = [fn |-> "GetFileContextWithMatches", made |-> FALSE,
                     opens |-> opens, file |-> FileOf(length, longAt),
                     lineNum |-> lineNum, out |-> <<>>]
    /\ searcher = NewSearcher

ContextNext ==
    \/ CallGetFileContext

ContextSpec == ContextInit /\ [][ContextNext]_vars

\* The selection over a list that grows to its cap: two sessions whose
\* batches both reach the list, the navigation keys and the mouse wheel.
SelectInit == InitWith([sessions |-> MaxSessions, lines |-> MaxLines,
                        kinds |-> {"match"}, files |-> {"x.go"},
                        texts |-> {TextLen}, readable |-> {TRUE},
                        time |-> 0])

SelectNext ==
    \/ Running /\ EditPattern
    \/ Running /\ CtrlT
    \/ Running /\ HandleSearchResult
    \/ Running /\ KeyUp
    \/ Running /\ KeyDown
    \/ Running /\ KeyPgUp
    \/ Running /\ KeyPgDown
    \/ Running /\ MouseWheelUp
    \/ Running /\ MouseWheelDown
    \/ Pipeline

SelectSpec == SelectInit /\ [][SelectNext]_vars

\* The command line of rg for every pattern, path and case mode followed.
ArgsInit ==
    /\ NewModel([sessions |-> 1, lines |-> 1, kinds |-> {"match"},
                 files |-> {"x.go"}, texts |-> {TextLen}, readable |-> {TRUE},
                 time |-> 0])
    /\ NewPathProvider
    /\ dir = <<>>
    /\ callers = <<>>
    /\ filterCall = NoFilterCall
    /\ highlighters = <<>>
    /\ hlCall = NoHlCall
    /\ hmCall = NoHmCall
    /\ \E pattern \in ArgPatterns : \E path \in ArgPaths :
       \E mode \in {CaseSmart, CaseSensitive, CaseInsensitive} :
          libCall = [fn |-> "Search", made |-> FALSE, pattern |-> pattern,
                     path |-> path, mode |-> mode, out |-> <<>>]
    /\ searcher = NewSearcher

ArgsNext ==
    \/ CallSearchArgs

ArgsSpec == ArgsInit /\ [][ArgsNext]_vars

\* Search calls on the shared Searcher, in any interleaving of their steps.
SearcherInit == InitWith([sessions |-> 0, lines |-> 0, kinds |-> {"match"},
                          files |-> {"x.go"}, texts |-> {TextLen},
                          readable |-> {TRUE}, time |-> 0])

SearcherNext ==
    \/ SearchEmpty
    \/ SearchCommand
    \/ SearchStdoutPipe
    \/ SearchStart
    \/ SearchReturn
    \/ SearchWait

SearcherSpec == SearcherInit /\ [][SearcherNext]_vars

\* One session's pipeline, with every kind of output line: the user types a
\* pattern, the delayed trigger starts the session, and the user may type again.
PipeInit == InitWith([sessions |-> 1, lines |-> MaxPipeLines, kinds |-> LineKinds,
                      files |-> {"x.go"}, texts |-> {TextLen},
                      readable |-> {TRUE}, time |-> MaxTime])

PipeNext ==
    \/ EditPattern
    \/ HandleDebounce
    \/ HandleSearchResult
    \/ HandleSearchError
    \/ Pipeline
    \/ Tick

PipeSpec == PipeInit /\ [][PipeNext]_vars

\* The same, with the scheduling the runtime guarantees the reader goroutine:
\* a reader that can see its context done does not wait for ever (the send
\* selects on ctx.Done(), and the killed process ends the read).
PipeFairSpec == PipeSpec /\ WF_vars(ReaderCancelled)

(***************************************************************************)
(* What the claims speak of.                                               *)
(***************************************************************************)
Sessions == 1..Len(sessions)

\* The event loop consumes the one message of session s in this step.
Consumes(s) == sessions[s].pc = "sent" /\ sessions'[s].pc = "done"

\* Session s was cancelled, or a newer session has taken its place.
Stale(s) == sessions[s].cancelled \/ s # searchCancel

\* The sessions of the current run of rapid changes that a delayed trigger started.
BurstSessions ==
    {s \in Sessions : sessions[s].tok > 0 /\ sessions[s].tok >= burstFirst}

\* The delayed trigger of the latest change is still to be consumed.
LastTriggerPending == \E t \in ticks : t.token = debounceToken

(***************************************************************************)
(* C1. Debounce coalescing: in a run of changes each made before the       *)
(* previous change's delayed trigger was consumed, the delayed triggers    *)
(* start at most one session, it is the one of the last change and has the *)
(* pattern and path of that change, and once the last trigger has been     *)
(* consumed exactly one has been started.                                  *)
(***************************************************************************)
C1_DebounceCoalescing ==
    /\ Cardinality(BurstSessions) <= 1
    /\ \A s \in BurstSessions :
          /\ sessions[s].tok = debounceToken
          /\ sessions[s].pattern = lastPattern
          /\ sessions[s].path = lastPath
    /\ (debounceToken > 0 /\ ~LastTriggerPending) => Cardinality(BurstSessions) = 1

\* Two rapid changes, both triggers consumed, one session: that of the second.
C1_Witness ==
    /\ debounceToken = 2
    /\ burstFirst = 1
    /\ ticks = {}
    /\ \E s \in Sessions : sessions[s].tok = 2 /\ sessions[s].pattern = "b"

(***************************************************************************)
(* C2. A delayed trigger whose token differs from debounceToken when it is *)
(* consumed starts no search and leaves the result list, the selection,    *)
(* the preview, the searching flag and the session context unchanged; a    *)
(* trigger whose token equals debounceToken starts a search with the       *)
(* pattern and path it carries.                                            *)
(***************************************************************************)
C2_StaleTriggerIsNoOp ==
    [][\A t \in ticks :
          ticks' = ticks \ {t} =>
             IF t.token # debounceToken
             THEN UNCHANGED <<results, selectedIndex, previewVars, searching,
                              searchCancel, sessions>>
             ELSE /\ Len(sessions') = Len(sessions) + 1
                  /\ searchCancel' = Len(sessions')
                  /\ sessions'[Len(sessions')].pattern = t.pattern
                  /\ sessions'[Len(sessions')].path = t.path]_vars

\* The trigger of the first change was consumed after the second change, with
\* results on display, a moved selection and a loaded preview.
C2_Witness ==
    /\ debounceToken = 2
    /\ \A t \in ticks : t.token = 2
    /\ Len(sessions) = 1
    /\ sessions[1].tok = 0
    /\ Len(results) = 2
    /\ selectedIndex = 1
    /\ previewPath # ""
    /\ searching

(***************************************************************************)
(* C3. Once a session has been cancelled or superseded, no match it        *)
(* produced is appended to the visible result list.                        *)
(***************************************************************************)
C3_NoStaleAppend ==
    [][\A s \in Sessions :
          Stale(s) =>
             \A i \in (Len(results) + 1)..Len(results') : results'[i].sess # s]_vars

(***************************************************************************)
(* C4. A done signal or an error event of a superseded or cancelled        *)
(* session changes neither the searching flag, the elapsed time nor the    *)
(* error message.                                                          *)
(***************************************************************************)
C4_StaleTerminalDropped ==
    [][\A s \in Sessions :
          (Consumes(s) /\ Stale(s)) =>
             UNCHANGED <<searching, searchTime, errorMessage>>]_vars

(***************************************************************************)
(* C5. At most one session is uncancelled at any time: every start of a    *)
(* session cancels the previous one.  A session whose command has returned *)
(* is not counted.                                                         *)
(***************************************************************************)
Uncancelled == {s \in Sessions : ~sessions[s].cancelled /\ sessions[s].pc \in {"start", "loop"}}

C5_AtMostOneUncancelled == Cardinality(Uncancelled) <= 1

(***************************************************************************)
(* C6. Every started session delivers the terminal done signal exactly     *)
(* once: when the command of a session has ended and its message has been  *)
(* consumed, that message carried done (a failed spawn reports an error    *)
(* instead).                                                               *)
(***************************************************************************)
C6_DoneExactlyOnce ==
    \A s \in Sessions :
        (sessions[s].pc = "done" /\ sessions[s].msg.type = "result")
            => sessions[s].msg.done

(***************************************************************************)
(* C7. Round trip: an uncancelled session whose process wrote N match      *)
(* lines, then one summary line, then closed its output has delivered, once*)
(* its command has ended, exactly N matches and the done signal.           *)
(***************************************************************************)
C7_RoundTrip ==
    \A s \in Sessions :
        ( /\ ~sessions[s].cancelled
          /\ sessions[s].rd = "closed"
          /\ sessions[s].nSkip = 1
          /\ sessions[s].lastKind = "summary"
          /\ sessions[s].pc = "done"
          /\ sessions[s].msg.type = "result" )
        => /\ Len(sessions[s].msg.matches) = sessions[s].nMatch
           /\ sessions[s].msg.done

(***************************************************************************)
(* C8. The visible result list never holds more than maxResults matches.   *)
(***************************************************************************)
C8_ResultsCapped == Len(results) <= maxResults

\* The cap cut a batch: one match more than the cap had been appended.
C8_Witness == Len(results) = maxResults /\ matchCount = maxResults + 1

(***************************************************************************)
(* C9. The result list stays in discovery order: a step either empties it  *)
(* (a session starts) or extends it at the end, by the consumed batch in   *)
(* its own order, dropping only what exceeds the cap; the matches of one   *)
(* session stand in the order the process wrote them.                      *)
(***************************************************************************)
IsPrefix(a, b) == Len(a) <= Len(b) /\ SubSeq(b, 1, Len(a)) = a

InProductionOrder(ms) ==
    \A i, j \in 1..Len(ms) :
        (i < j /\ ms[i].sess = ms[j].sess) => ms[i].seq < ms[j].seq

C9_Step ==
    /\ results' = <<>> \/ IsPrefix(results, results')
    /\ \A s \in Sessions :
          Consumes(s) =>
             /\ Len(results') = Min(maxResults, Len(results) + Len(sessions[s].msg.matches))
             /\ IsPrefix(SubSeq(results', Len(results) + 1, Len(results')),
                         sessions[s].msg.matches)

C9_DiscoveryOrder == [](InProductionOrder(results)) /\ [][C9_Step]_vars

\* The cap dropped the tail of the second of two batches.
C9_Witness ==
    /\ Len(results) = maxResults
    /\ matchCount > maxResults
    /\ results[1].sess # results[maxResults].sess

(***************************************************************************)
(* C10. No batch holds more than batchThreshold matches: not a message in  *)
(* flight or consumed, flushed by count, by the timer, on closure or on    *)
(* cancellation, and not the buffer either.                                *)
(***************************************************************************)
C10_BatchBounded ==
    \A s \in Sessions :
        /\ Len(sessions[s].msg.matches) <= batchThreshold
        /\ Len(sessions[s].batch) <= batchThreshold

\* A full batch flushed by the count trigger, and a final one flushed on closure.
C10_Witness ==
    \E s \in Sessions :
        /\ sessions[s].pc = "sent"
        /\ sessions[s].msg.done
        /\ Len(sessions[s].msg.matches) = batchThreshold - 1
        /\ sessions[s].nMatch = batchThreshold - 1

(***************************************************************************)
(* C11. When the loop of a command takes a tick of the batch timer, a      *)
(* non-empty buffer is returned as a batch, whole and without the done     *)
(* flag, and with an empty buffer nothing is returned and the loop goes    *)
(* on; either way no match stays in the buffer across the tick, also when  *)
(* the count trigger has not been reached.                                 *)
(***************************************************************************)
\* The loop of session s takes the pending tick in this step.
TakesTick(s) ==
    /\ sessions[s].pc = "loop"
    /\ sessions[s].ticked
    /\ \/ sessions'[s].why = "timer"
       \/ sessions'[s].pc = "loop" /\ ~sessions'[s].ticked

C11_TimerFlush ==
    [][\A s \in Sessions :
          TakesTick(s) =>
             /\ sessions'[s].batch = <<>>
             /\ IF sessions[s].batch # <<>>
                THEN /\ sessions'[s].pc = "sent"
                     /\ sessions'[s].msg = searchResultMsg(sessions[s].batch, FALSE)
                ELSE /\ sessions'[s].pc = "loop"
                     /\ sessions'[s].msg = NoMsg]_vars

\* The timer came first: a batch below the count trigger, flushed by a tick.
C11_Witness ==
    \E s \in Sessions :
        /\ sessions[s].why = "timer"
        /\ sessions[s].pc = "sent"
        /\ Len(sessions[s].msg.matches) = batchThreshold - 1
        /\ ~sessions[s].msg.done

(***************************************************************************)
(* C12. The preview applied to the panel belongs to the selected match: a  *)
(* load made for a match that is no longer the selected one when it        *)
(* completes is discarded, lines and match line, whether the selected      *)
(* match lies in the same file or in another one.                          *)
(***************************************************************************)
\* The load msg was made for the match that is selected now.
ForSelected(msg) ==
    /\ selectedIndex < Len(results)
    /\ results[selectedIndex + 1] = msg.of

C12_StaleLoadDiscarded ==
    [][\A msg \in loads :
          (loads' = loads \ {msg} /\ ~msg.err /\ ~ForSelected(msg)) =>
             UNCHANGED previewVars]_vars

(***************************************************************************)
(* C13. A load of a file that cannot be read carries exactly one line, the *)
(* synthetic line that tells of the error; when the event loop consumes it *)
(* the loop goes on, and the result list, the selection and the searching  *)
(* flag stay as they are.                                                  *)
(***************************************************************************)
C13_UnreadablePreview ==
    /\ [](\A msg \in loads :
            msg.err => msg.lines = <<"Error loading preview">>)
    /\ [](aborted # "preview error")
    /\ [][\A msg \in loads :
            (msg.err /\ loads' = loads \ {msg}) =>
               /\ UNCHANGED <<results, selectedIndex, searching>>
               /\ previewLines' \in {previewLines, msg.lines}]_vars

(***************************************************************************)
(* C14. A search with an empty pattern spawns no process: no line is ever  *)
(* read and nothing is put on the conduit, which is closed at once; no     *)
(* error is returned, and the one message of the session is the done       *)
(* signal with no match.                                                   *)
(***************************************************************************)
C14_EmptyPattern ==
    \A s \in Sessions :
        sessions[s].pattern = "" =>
            /\ sessions[s].rd \in {"none", "closed"}
            /\ sessions[s].nMatch = 0 /\ sessions[s].nSkip = 0
            /\ sessions[s].chan = <<>> /\ sessions[s].batch = <<>>
            /\ sessions[s].msg.type # "error"
            /\ sessions[s].pc \in {"sent", "done"} =>
                   sessions[s].msg = searchResultMsg(<<>>, TRUE)

\* The session of an emptied pattern has ended: done, and nothing on the list.
C14_Witness ==
    \E s \in Sessions :
        /\ sessions[s].pattern = ""
        /\ sessions[s].pc = "done"
        /\ ~sessions[s].cancelled
        /\ results = <<>>
        /\ ~searching

(***************************************************************************)
(* C15. When the process cannot be spawned the conduit is closed with      *)
(* nothing on it and the session's one message is the error; consuming it  *)
(* sets the error message, clears the searching flag, leaves the result    *)
(* list empty and starts nothing: no session and no delayed trigger.       *)
(***************************************************************************)
C15_SpawnFailure ==
    /\ [](\A s \in Sessions :
            sessions[s].msg.type = "error" =>
               /\ sessions[s].rd = "closed"
               /\ sessions[s].chan = <<>>
               /\ sessions[s].nMatch = 0
               /\ results = <<>>)
    /\ [][\A s \in Sessions :
            (Consumes(s) /\ sessions[s].msg.type = "error") =>
               /\ errorMessage' # ""
               /\ ~searching'
               /\ results' = <<>>
               /\ Len(sessions') = Len(sessions)
               /\ ticks' = ticks]_vars

\* The error of a failed spawn (the context was not cancelled) has been shown.
C15_Witness ==
    \E s \in Sessions :
        /\ sessions[s].msg.type = "error"
        /\ sessions[s].pc = "done"
        /\ ~sessions[s].cancelled
        /\ errorMessage # ""
        /\ ~searching

(***************************************************************************)
(* C16. A line that is not a well-formed match line is skipped: reading it *)
(* puts nothing on the conduit, leaves the stream open and raises no       *)
(* error; and whatever lines were skipped, the matches an uncancelled      *)
(* session has read are on their way to the event loop, each once and in   *)
(* the order the process wrote them.                                       *)
(***************************************************************************)
\* The matches of session s on their way, oldest first: those the command
\* took, those on the conduit, and the one the reader is about to send.
OnTheWay(s) ==
    sessions[s].msg.matches \o sessions[s].batch \o sessions[s].chan
        \o (IF sessions[s].rd = "send" THEN <<sessions[s].pending>> ELSE <<>>)

\* The reader of session s reads a line that yields no match in this step.
SkipsLine(s) ==
    /\ sessions'[s].nMatch + sessions'[s].nSkip
          = sessions[s].nMatch + sessions[s].nSkip + 1
    /\ sessions'[s].lastKind # "match"

C16_SkippedLines ==
    /\ [](\A s \in Sessions :
            ~sessions[s].cancelled =>
               /\ Len(OnTheWay(s)) = sessions[s].nMatch
               /\ \A i \in 1..Len(OnTheWay(s)) :
                     OnTheWay(s)[i].sess = s /\ OnTheWay(s)[i].seq = i)
    /\ [][\A s \in Sessions :
            SkipsLine(s) =>
               /\ sessions'[s].nMatch = sessions[s].nMatch
               /\ sessions'[s].rd = "scan"
               /\ sessions'[s].chan = sessions[s].chan
               /\ sessions'[s].msg = sessions[s].msg
               /\ UNCHANGED <<errorMessage, results>>]_vars

\* A match read after two skipped lines has reached the list.
C16_Witness ==
    \E s \in Sessions :
        /\ sessions[s].nSkip = 2
        /\ sessions[s].nMatch = 1
        /\ sessions[s].lastKind = "match"
        /\ ~sessions[s].cancelled
        /\ Len(results) = 1
        /\ errorMessage = ""

(***************************************************************************)
(* C17, as stated. After the context of a session is cancelled its reader  *)
(* eventually closes the conduit, also when it waits to send on a full     *)
(* conduit nobody reads, and puts no further match on the conduit.         *)
(***************************************************************************)
\* A reader at work on a cancelled context eventually closes the conduit.
ReaderStops ==
    \A s \in 1..MaxSessions :
        (s \in Sessions /\ sessions[s].cancelled /\ sessions[s].rd \in {"scan", "send"})
            ~> (s \in Sessions /\ sessions[s].rd = "closed")

C17_NoSendAfterCancel ==
    /\ ReaderStops
    /\ [][\A s \in Sessions :
            sessions[s].cancelled =>
               Len(sessions'[s].chan) <= Len(sessions[s].chan)]_vars

(***************************************************************************)
(* C17, amended. After the context of a session is cancelled its reader    *)
(* eventually closes the conduit, also when it waits to send on a full     *)
(* conduit nobody reads; it reads no further line, and the only match it   *)
(* can still put on the conduit is the one it had read before.             *)
(***************************************************************************)
C17_ReaderStopsAfterCancel ==
    /\ ReaderStops
    /\ [][\A s \in Sessions :
            sessions[s].cancelled =>
               /\ sessions'[s].nMatch = sessions[s].nMatch
               /\ sessions'[s].nSkip = sessions[s].nSkip
               /\ Len(sessions'[s].chan) > Len(sessions[s].chan) =>
                     /\ sessions[s].rd = "send"
                     /\ sessions'[s].chan = Append(sessions[s].chan, sessions[s].pending)
                     /\ sessions'[s].pending = NoMatch]_vars

\* The reader waited to send on a full conduit that the command, returned on
\* the cancellation, no longer read; it dropped the match and closed.
C17_Witness ==
    \E s \in Sessions :
        /\ sessions[s].cancelled
        /\ sessions[s].rd = "closed"
        /\ sessions[s].why = "cancelled"
        /\ Len(sessions[s].chan) = resultsCap
        /\ sessions[s].nMatch = resultsCap + 1

(***************************************************************************)
(* C18, as stated. A step that changes the case mode, or that confirms the *)
(* highlighted type of the dropdown, starts a search in that very step and *)
(* schedules no delayed trigger.                                           *)
(***************************************************************************)
\* This step takes the highlighted type into the types input.
ConfirmsType ==
    /\ dropdownVisible /\ ~dropdownVisible'
    /\ Len(filteredTypes) > 0
    /\ typesInput' # typesInput
    /\ typesInput' = ConfirmedTypes(typesInput, filteredTypes[dropdownIndex + 1])

\* This step starts a session, with the inputs as they are, and no delayed
\* trigger.
StartsSearchAtOnce ==
    /\ Len(sessions') = Len(sessions) + 1
    /\ searchCancel' = Len(sessions')
    /\ sessions'[Len(sessions')].pattern = patternInput
    /\ sessions'[Len(sessions')].path = pathInput
    /\ searching'
    /\ ticks' = ticks
    /\ debounceToken' = debounceToken

C18_ImmediateSearch ==
    [][(caseSensitivity' # caseSensitivity \/ ConfirmsType)
          => StartsSearchAtOnce]_vars

(***************************************************************************)
(* C18, amended. A step that changes the case mode while the pattern is    *)
(* not empty, or that confirms the highlighted type of the dropdown,       *)
(* starts a search in that very step and schedules no delayed trigger.     *)
(***************************************************************************)
C18_ImmediateSearchWithPattern ==
    [][((caseSensitivity' # caseSensitivity /\ patternInput # "") \/ ConfirmsType)
          => StartsSearchAtOnce]_vars

\* A search started by the confirmation of a type: the tail of Update has not
\* seen the new types.
C18_Witness ==
    /\ typesInput = <<"g", "n">>
    /\ fileTypes = << <<"g", "n">> >>
    /\ lastFileTypes # fileTypes
    /\ ~dropdownVisible
    /\ searching
    /\ searchCancel > 0
    /\ sessions[searchCancel].tok = 0

(***************************************************************************)
(* C19. When the program quits on the second Ctrl+C, the context of every  *)
(* session whose process is still being read has been cancelled.           *)
(***************************************************************************)
C19_QuitCancels ==
    quit => \A s \in Sessions :
               sessions[s].rd \in {"scan", "send"} => sessions[s].cancelled

(***************************************************************************)
(* C20. No event the event loop consumes ends it with a panic: not a       *)
(* window-size event, not a batch, not a preview, not a key.               *)
(***************************************************************************)
C20_NeverAborts == aborted = "none"

(***************************************************************************)
(* C26. The program quits only on a Ctrl+C pressed within two seconds of   *)
(* an earlier Ctrl+C that is still pending, and every other key press      *)
(* (here: the case toggle, Tab) withdraws the pending confirmation.        *)
(***************************************************************************)
C26_QuitConfirmation ==
    /\ [][(quit' /\ ~quit) =>
            (ctrlCPressed /\ now - lastCtrlCTime < ctrlCWindow)]_vars
    /\ [][(caseSensitivity' # caseSensitivity \/ focused' # focused) =>
            ~ctrlCPressed']_vars

(***************************************************************************)
(* C29. debounceToken never decreases; it grows by exactly one in every    *)
(* step that changes the effective query (pattern, path, type filters) and *)
(* stays as it is in every other step; and a step in which it grows        *)
(* schedules exactly one delayed trigger, which carries the new token and  *)
(* the pattern and path of that step.                                      *)
(***************************************************************************)
\* The query a search would run with: pattern, path and type filters.
EffectiveQuery ==
    <<patternInput, CurrentPath(pathInput), parseTypes(typesInput)>>

C29_TokenCounts ==
    [][/\ debounceToken' >= debounceToken
       /\ (EffectiveQuery' # EffectiveQuery) <=> (debounceToken' = debounceToken + 1)
       /\ (EffectiveQuery' = EffectiveQuery) => (debounceToken' = debounceToken)
       /\ (debounceToken' # debounceToken) =>
             ticks' \ ticks = {debounceMsg(debounceToken', patternInput',
                                            CurrentPath(pathInput'))}]_vars

(***************************************************************************)
(* C30. A step that changes the effective query cancels the context of the *)
(* session in flight, if there is one, and clears the preview, in that     *)
(* very step: also when the step starts a session itself.                  *)
(***************************************************************************)
\* The session whose cancel function the model holds is still at work.
InFlight ==
    /\ searchCancel > 0
    /\ ~sessions[searchCancel].cancelled
    /\ sessions[searchCancel].pc \in {"start", "loop"}

C30_ChangeCancels ==
    [][(EffectiveQuery' # EffectiveQuery) =>
          /\ InFlight => sessions'[searchCancel].cancelled
          /\ previewPath' = ""
          /\ previewLines' = <<>>]_vars

(***************************************************************************)
(* C21. scorePathMatch compares with the case folded and returns the first *)
(* that applies of: 2000, input equals path; 1000, path starts with input; *)
(* 800, the final segment of the path starts with input; 500, input stands *)
(* right after a separator; 100, input stands anywhere in the path; else   *)
(* 0.  FilterPaths leaves out a path that scores 0 and gives every other   *)
(* path its score.                                                         *)
(***************************************************************************)
\* sub stands in str from position k on.
OccursAt(sub, str, k) ==
    /\ k + Len(sub) - 1 <= Len(str)
    /\ \A j \in 1..Len(sub) : str[k + j - 1] = sub[j]

\* The final segment of a path: what stands between the last separator and
\* the end, separators at the very end left aside.
LastSegment(path) ==
    LET ends == {n \in 0..Len(path) :
                    /\ \A j \in (n + 1)..Len(path) : path[j] = "/"
                    /\ n > 0 => path[n] # "/"}
        n == CHOOSE n \in ends : TRUE
        starts == {k \in 1..(n + 1) :
                    /\ \A j \in k..n : path[j] # "/"
                    /\ k > 1 => path[k - 1] = "/"}
        k == CHOOSE k \in starts : TRUE
    IN SubSeq(path, k, n)

\* The score the ladder of rules gives.
LadderScore(input, path) ==
    LET i == ToLower(ToSlash(input))
        p == ToLower(ToSlash(path))
    IN IF i = p THEN 2000
       ELSE IF OccursAt(i, p, 1) THEN 1000
       ELSE IF OccursAt(i, LastSegment(p), 1) THEN 800
       ELSE IF \E k \in 1..Len(p) : p[k] = "/" /\ OccursAt(i, p, k + 1) THEN 500
       ELSE IF \E k \in 1..(Len(p) + 1) : OccursAt(i, p, k) THEN 100
       ELSE 0

WorkedExample ==
    /\ filterCall.made
    /\ filterCall.input = <<"u", "i">>
    /\ Len(filterCall.allPaths) = 3
    /\ {filterCall.allPaths[i].Path : i \in 1..3}
          = {PathInternalUi, PathInternalUiModelGo, PathUixTestGo}

\* The result as a list of paths with their scores.
Ranking == [i \in 1..Len(filterCall.out) |->
               <<filterCall.out[i].Path, filterCall.out[i].Score>>]

LexBefore(a, b) ==
    \E k \in 1..(Len(b)) :
        /\ k <= Len(a) + 1
        /\ \A j \in 1..(k - 1) : a[j] = b[j]
        /\ k = Len(a) + 1 \/ Byte(a[k]) < Byte(b[k])

\* Entry a stands before entry b in the order of the result.
RanksBefore(a, b) ==
    \/ a.Score > b.Score
    \/ a.Score = b.Score /\ LexBefore(a.Path, b.Path)

C23_SortedTop ==
    LET input == filterCall.input
        out == filterCall.out
        matching == {[filterCall.allPaths[i] EXCEPT
                         !.Score = scorePathMatch(input, filterCall.allPaths[i].Path)] :
                       i \in {j \in 1..Len(filterCall.allPaths) :
                                scorePathMatch(input, filterCall.allPaths[j].Path) > 0}}
        returned == {out[i] : i \in 1..Len(out)}
    IN filterCall.made =>
          IF input = <<>> THEN out = <<>>
          ELSE /\ Len(out) = Min(Cardinality(matching), maxPathResults)
               /\ returned \subseteq matching
               /\ \A i, j \in 1..Len(out) : i < j => RanksBefore(out[i], out[j])
               /\ \A e \in matching \ returned :
                     \A r \in returned : RanksBefore(r, e)

\* More candidates match than are returned, and two of the returned have the
\* same score.
C23_Witness ==
    /\ filterCall.made
    /\ Len(filterCall.allPaths) = Cardinality(Candidates)
    /\ Len(filterCall.out) = maxPathResults
    /\ \E i \in 1..(Len(filterCall.out) - 1) :
          filterCall.out[i].Score = filterCall.out[i + 1].Score

(***************************************************************************)
(* C24. A call of LoadPaths that finds the cache younger than the ttl      *)
(* returns the cached entries and walks nothing; a call that finds it      *)
(* older walks the directory again and returns what the walk found; and a  *)
(* change of the directory leaves the cache and its time as they are.      *)
(***************************************************************************)
\* Caller c returns from LoadPaths in this step.
Returns(c) == callers[c].pc # "idle" /\ callers'[c].pc = "idle"

\* Less than the ttl has gone by since the cache was filled.
WithinTTL == ~cacheTime.zero /\ now - cacheTime.t < pathCacheTTL

C24_CacheByTime ==
    /\ [][\A c \in Callers :
            (Returns(c) /\ WithinTTL) =>
               /\ cache.set
               /\ callers'[c].ret = cache
               /\ UNCHANGED <<cache, cacheTime, walkLog>>]_vars
    /\ [][\A c \in Callers :
            (Returns(c) /\ ~WithinTTL) =>
               /\ Len(walkLog') = Len(walkLog) + 1
               /\ walkLog'[Len(walkLog')].by = c
               /\ callers'[c].ret.entries = walkLog'[Len(walkLog')].entries
               /\ cacheTime' = [zero |-> FALSE, t |-> now]]_vars
    /\ [][dir' # dir => UNCHANGED <<cache, cacheTime>>]_vars

\* The directory was walked, and walked again when the ttl had gone by; it
\* has changed since, and a call has returned the cached entries that no
\* longer are what a walk would find.
C24_Witness ==
    /\ Len(walkLog) = 2
    /\ \E c \in Callers :
          /\ callers[c].via = "read"
          /\ callers[c].ret = cache
          /\ callers[c].ret.entries # walkDirectory(dir)

(***************************************************************************)
(* C25. The cache is filled by one writer at a time and never while a      *)
(* reader looks at it; whenever nobody writes, the entries and the time    *)
(* are those of one completed walk; two walks lie a ttl apart at least, so *)
(* of the calls that meet on an expired cache one walks; and a call that   *)
(* waited for the write lock and did not walk returns a walk's result.     *)
(***************************************************************************)
Writing == {c \in Callers : callers[c].pc \in {"recheck", "walk", "store", "stamp"}}

Reading == {c \in Callers : callers[c].pc = "check"}

C27_DisabledUnchanged ==
    (hlCall.made /\ ~hlCall.was.enabled) =>
        /\ hlCall.fn = "Highlight" => hlCall.out = hlCall.content
        /\ hlCall.fn = "HighlightLines" => hlCall.outLines = hlCall.lines

\* Highlight was called with content that an enabled instance colours, on an
\* instance that had been enabled and was disabled again, while the other
\* instance is enabled.
C27_Witness ==
    /\ hlCall.made
    /\ hlCall.fn = "Highlight"
    /\ ~hlCall.was.enabled
    /\ hlCall.was.formatter
    /\ hlCall.content = <<"a">>
    /\ hlCall.filePath = "main.go"
    /\ \E o \in Highlighters \ {hlCall.h} : highlighters[o].enabled

(***************************************************************************)
(* C28. highlightMatches called with a line and no submatches returns the  *)
(* line as it is, and called again on that result with no submatches it    *)
(* returns the same text once more.                                        *)
(***************************************************************************)
C28_EmptyIdempotent ==
    (hmCall.made /\ hmCall.submatches = <<>>) =>
        /\ hmCall.out = hmCall.text
        /\ (~hmCall.fresh /\ hmCall.prevEmpty) => hmCall.out = hmCall.prevText

\* The second of two calls without submatches, on a line that has text.
C28_Witness ==
    /\ hmCall.made
    /\ ~hmCall.fresh
    /\ hmCall.prevEmpty
    /\ hmCall.submatches = <<>>
    /\ hmCall.prevText = <<"a", "b">>

(***************************************************************************)
(* C31. A step that starts a session leaves the result list empty, the     *)
(* selection index 0, the preview path and lines cleared, the error        *)
(* message empty, the searching flag set and the start time at the clock   *)
(* of that step; the new session has a context of its own, not cancelled,  *)
(* which m.searchCancel now names, and its pipeline is at its beginning.   *)
(* The contexts of the sessions before are as they were.                   *)
(***************************************************************************)
SessionStarts == Len(sessions') = Len(sessions) + 1

C31_StartResets ==
    [][SessionStarts =>
          /\ results' = <<>>
          /\ selectedIndex' = 0
          /\ previewPath' = ""
          /\ previewLines' = <<>>
          /\ errorMessage' = ""
          /\ searching'
          /\ searchStart' = now
          /\ searchCancel' = Len(sessions')
          /\ ~sessions'[searchCancel'].cancelled
          /\ sessions'[searchCancel'].pc = "start"
          /\ sessions'[searchCancel'].chan = <<>>
          /\ \A s \in Sessions : sessions'[s] = sessions[s]]_vars

\* The first session delivered two matches, the selection went down to the
\* second and its preview was shown; then, after the only change of the
\* query and later on the clock, a second session started over all that.
C31_Witness ==
    /\ Len(sessions) = 2
    /\ debounceToken = 1
    /\ sessions[1].pc = "done"
    /\ Len(sessions[1].msg.matches) = 2
    /\ sessions[2].pc = "start"
    /\ previewMatch = 2
    /\ results = <<>>
    /\ selectedIndex = 0
    /\ previewPath = ""
    /\ searching
    /\ searchStart = now
    /\ now > 0

(***************************************************************************)
(* C32. For a match at line n of a file of L lines that is read without    *)
(* an error, the load with the radius 5 returns the lines max(1, n - 5) to *)
(* min(n + 5, L), each once and in the order of the file, with startLine = *)
(* max(1, n - 5) and matchLine = n; and no load, failed or not, reads a    *)
(* line after line n + 5 + 1.                                              *)
(***************************************************************************)
C32_ContextWindow ==
    (libCall.made /\ libCall.fn = "GetFileContextWithMatches") =>
        LET n == libCall.lineNum
            L == Len(libCall.file)
            first == Max(1, n - previewContext)
            last == Min(n + previewContext, L)
            out == libCall.out
        IN /\ out.read <= n + previewContext + 1
           /\ ~out.err =>
                 /\ out.Lines = [i \in 1..(last - first + 1) |-> first + i - 1]
                 /\ out.StartLine = first
                 /\ out.MatchLine = n
           /\ out.err <=>
                 \/ ~libCall.opens
                 \/ \E i \in 1..Min(n + previewContext + 1, L) : libCall.file[i].long

\* A load from the middle of a long file: the window is cut at neither end,
\* and the scan stopped one line after it, before the end of the file.
C32_Witness ==
    /\ libCall.made
    /\ libCall.fn = "GetFileContextWithMatches"
    /\ ~libCall.out.err
    /\ libCall.lineNum = previewContext + 2
    /\ Len(libCall.file) = MaxFileLines
    /\ Len(libCall.out.Lines) = 2 * previewContext + 1
    /\ libCall.out.StartLine = 2
    /\ libCall.out.read = libCall.lineNum + previewContext + 1
    /\ libCall.out.read < Len(libCall.file)

(***************************************************************************)
(* C33. A step that moves the selection within a list that is not empty    *)
(* leaves a preview load for the newly selected match in flight; so does   *)
(* the arrival of a batch that leaves the list not empty while no preview  *)
(* is set, for the selected match, and an arrival while a preview is set   *)
(* issues none; and no step that leaves the list empty issues a load.      *)
(***************************************************************************)
\* A load for the match at index idx of the list res is in flight in ls.
LoadInFlight(ls, res, idx) ==
    \E msg \in ls : msg.of = res[idx + 1]

\* The event loop consumes a batch in this step.
BatchArrives ==
    \E s \in Sessions : Consumes(s) /\ sessions[s].msg.type = "result"

C33_PreviewLoads ==
    /\ [][(selectedIndex' # selectedIndex /\ results' # <<>>) =>
             LoadInFlight(loads', results', selectedIndex')]_vars
    /\ [][(BatchArrives /\ results' # <<>> /\ previewPath = "") =>
             LoadInFlight(loads', results', selectedIndex')]_vars
    /\ [][(BatchArrives /\ previewPath # "") => loads' = loads]_vars
    /\ [][results' = <<>> => loads' \subseteq loads]_vars

\* The second match is selected and nothing but the load for it is in flight:
\* the load the first batch asked for has come back, and the step down has
\* asked for this one.
C33_Witness ==
    /\ Len(results) = 2
    /\ selectedIndex = 1
    /\ previewPath # ""
    /\ previewMatch = 1
    /\ Cardinality(loads) = 1
    /\ LoadInFlight(loads, results, 1)

(***************************************************************************)
(* C37. The selection index is never negative, it is 0 while the list is   *)
(* empty, and it is less than the length of the list while the list is not *)
(* empty: after the navigation keys, the page keys, the mouse wheel, the   *)
(* batches, the cut at the cap and the start of a session.                 *)
(***************************************************************************)
C37_SelectionInRange ==
    /\ selectedIndex >= 0
    /\ results = <<>> => selectedIndex = 0
    /\ results # <<>> => selectedIndex < Len(results)

\* The last match of a list that was cut at the cap is selected.
C37_Witness ==
    /\ matchCount > maxResults
    /\ Len(results) = maxResults
    /\ selectedIndex = maxResults - 1

(***************************************************************************)
(* C34. Whenever Search starts the external process, the arguments before  *)
(* the first -- hold exactly one of --smart-case, --case-sensitive and     *)
(* --ignore-case: the one of the mode, right after --max-count=1000 and    *)
(* right before the --; after the -- come the pattern and then the path,   *)
(* or . for the empty path, and nothing else.                              *)
(***************************************************************************)
CaseFlags == {"--smart-case", "--case-sensitive", "--ignore-case"}

FlagNamed(mode) ==
    IF mode = CaseSmart THEN "--smart-case"
    ELSE IF mode = CaseSensitive THEN "--case-sensitive"
    ELSE "--ignore-case"

C34_CaseFlag ==
    (libCall.made /\ libCall.fn = "Search" /\ libCall.out.invoked) =>
        LET args == libCall.out.args
            sep == CHOOSE i \in 1..Len(args) :
                      args[i] = "--" /\ \A j \in 1..(i - 1) : args[j] # "--"
        IN /\ \E i \in 1..Len(args) : args[i] = "--"
           /\ Cardinality({i \in 1..(sep - 1) : args[i] \in CaseFlags}) = 1
           /\ sep > 2
           /\ args[sep - 1] = FlagNamed(libCall.mode)
           /\ args[sep - 2] = "--max-count=1000"
           /\ Len(args) = sep + 2
           /\ args[sep + 1] = libCall.pattern
           /\ args[sep + 2] = (IF libCall.path = "" THEN "." ELSE libCall.path)

\* A search without regard to case for a pattern that reads like another
\* flag, in the current directory.
C34_Witness ==
    /\ libCall.made
    /\ libCall.fn = "Search"
    /\ libCall.out.invoked
    /\ libCall.mode = CaseInsensitive
    /\ libCall.pattern = "--smart-case"
    /\ libCall.path = ""
    /\ Len(libCall.out.args) = 8

(***************************************************************************)
(* C35. Whatever calls of FilterPaths have been made, the entries of the   *)
(* cache are those the last walk stored, path and directory flag as the    *)
(* walk found them and every score 0; so every call is handed entries      *)
(* without scores, and what it returns depends on its own input only.      *)
(***************************************************************************)
C35_CacheUntouched ==
    /\ \A i \in 1..Len(cache.entries) : cache.entries[i].Score = 0
    /\ (walkLog # <<>> /\ \A c \in Callers : callers[c].pc \notin {"store", "stamp"}) =>
          cache.entries = walkLog[Len(walkLog)].entries
    /\ filterCall.made =>
          /\ \A i \in 1..Len(filterCall.allPaths) : filterCall.allPaths[i].Score = 0
          /\ filterCall.out = FilterPaths(filterCall.input,
                [i \in 1..Len(filterCall.allPaths) |->
                    PathEntry(filterCall.allPaths[i].Path, filterCall.allPaths[i].IsDir)])

\* Two calls with different inputs, one after the other, on the slice the
\* cache holds; both inputs match entries, and the second call's matches
\* were cut to the most that are shown.
C35_Witness ==
    /\ filterCall.made
    /\ filterCall.cached
    /\ filterCall.input = <<"d">>
    /\ filterCall.prev = << <<"a">> >>
    /\ Len(filterCall.out) = maxPathResults
    /\ Len(cache.entries) > maxPathResults

(***************************************************************************)
(* C36. A search started at once by Enter on the dropdown or by Esc in the *)
(* types input stays as it is for as long as the text of the pattern, path *)
(* and types inputs has not changed since it started: no later step        *)
(* cancels its context, and no delayed trigger starts a session in its     *)
(* place.                                                                  *)
(***************************************************************************)
\* Session s was started at once (by no delayed trigger), its cancel function
\* is the one the model holds, and no input has changed since, this step
\* included.
ImmediateUntouched(s) ==
    /\ sessions[s].tok = 0
    /\ searchCancel = s
    /\ ~sessions'[s].edited

C36_ImmediateKept ==
    [][\A s \in Sessions :
          ImmediateUntouched(s) =>
             /\ sessions'[s].cancelled = sessions[s].cancelled
             /\ ~(SessionStarts /\ sessions'[Len(sessions')].tok # 0)]_vars


(***************************************************************************)
(* C38. When Search calls on the shared Searcher overlap, every call acts  *)
(* on the command it made itself: it takes the pipe of, starts and waits   *)
(* on no command of another call; no command is waited on by a call that   *)
(* did not make it; and once every call and every waiting goroutine has    *)
(* run, each process that was started has been waited on by the call that  *)
(* started it, once.                                                       *)
(***************************************************************************)
SearcherQuiet ==
    \A c \in SearchCalls :
        /\ searcher.calls[c].pc = "returned"
        /\ searcher.calls[c].waiter # "ready"

C38_OwnProcessWaited ==
    /\ \A c \in SearchCalls :
          LET call == searcher.calls[c] IN
          /\ call.stdout \in {0, call.own}
          /\ call.started \in {0, call.own}
          /\ call.waited \in {0, call.own}
    /\ \A k \in 1..Len(searcher.cmds) :
          searcher.cmds[k].waiters \subseteq {searcher.cmds[k].by}
    /\ SearcherQuiet =>
          \A k \in 1..Len(searcher.cmds) :
             searcher.cmds[k].started # 0 =>
                /\ searcher.cmds[k].started = searcher.cmds[k].by
                /\ searcher.cmds[k].waiters = {searcher.cmds[k].by}


(***************************************************************************)
(* C39. However Search goes (empty pattern, no pipe or no process, the     *)
(* reader leaving at the end of the output or on cancellation), the        *)
(* conduit of the session is closed once and not twice: it is closed as    *)
(* soon as Search has returned without a reader, and when the reader       *)
(* leaves; and nothing is sent on a closed conduit.                        *)
(***************************************************************************)
ClosedOnce(ss) ==
    /\ ss.closes <= 1
    /\ (ss.rd = "closed") <=> (ss.closes = 1)
    /\ (ss.pc # "start") => ss.rd \in {"scan", "send", "closed"}

C39_ClosedOnce ==
    [][\A s \in 1..Len(sessions') :
          /\ ClosedOnce(sessions'[s])
          /\ (s <= Len(sessions) /\ sessions[s].rd = "closed") =>
                /\ sessions'[s].rd = "closed"
                /\ Len(sessions'[s].chan) <= Len(sessions[s].chan)
                /\ sessions'[s].nMatch = sessions[s].nMatch]_vars

C39_Witness ==
    \E s \in Sessions :
        /\ sessions[s].cancelled
        /\ sessions[s].rd = "closed"
        /\ sessions[s].closes = 1
        /\ sessions[s].nMatch >= 1
        /\ sessions[s].chan # <<>>


(***************************************************************************)
(* C40. Whenever a Highlighter is enabled, its style object is the one its *)
(* style name stands for (the fallback for a name the registry lacks),     *)
(* whatever calls of SetEnabled and SetStyle came before; and a text that  *)
(* Highlight coloured was coloured with the style object of the name the   *)
(* Highlighter had at the call.                                            *)
(***************************************************************************)
C40_StyleObjFollowsStyle ==
    /\ \A i \in Highlighters :
          highlighters[i].enabled =>
             highlighters[i].styleObj = StyleObj(highlighters[i].style)
    /\ (hlCall.made /\ hlCall.fn = "Highlight" /\ hlCall.out # hlCall.content) =>
          hlCall.out = Format(hlCall.content, StyleObj(hlCall.was.style))


====
